---- MODULE Spec2Model ----
(***************************************************************************)
(* The autonomous brain of pidog_brain (autonomous_brain.py) and the tool  *)
(* dispatcher it drives (tools.py), as a state machine.                    *)
(*                                                                         *)
(* Threads: the brain loop (_run_loop), the voice thread calling           *)
(* on_interaction_start()/on_interaction_end(), producer threads calling   *)
(* observe(), a status thread calling get_state(), and the owner calling   *)
(* start()/stop().  A region guarded by one `with lock:` is one step; code *)
(* outside a lock is split wherever another thread can observe it.         *)
(*                                                                         *)
(* Moods are integers in units of 1/10000, times are whole seconds.        *)
(***************************************************************************)
EXTENDS Integers, Sequences, FiniteSets, TLC

VARIABLES
    state,               \* AutonomousBrain.state
    mood,                \* AutonomousBrain.mood (Mood fields)
    rate_limiter,        \* RateLimiter fields
    local_only,          \* AutonomousBrain.local_only
    llm_callback,        \* TRUE iff a reasoner callback was given
    _observation_queue,  \* queue.Queue(maxsize=100), oldest first
    _running,            \* AutonomousBrain._running
    spc,                 \* position of the caller of stop()
    latched,             \* _person_detected, _recent_person, ... fields
    now,                 \* time.time()
    pc,                  \* position of the brain loop thread
    obs,                 \* _handle_observation's argument
    should_think,        \* _maybe_think's local
    response,            \* _do_think's reasoner reply
    decision,            \* parsed speech / actions / tools still to run
    vpc,                 \* position of the voice thread
    ppc,                 \* position of each producer inside observe()
    pobs,                \* observation each producer is enqueueing
    gpc,                 \* position of the status thread inside get_state()
    gtimes,              \* get_state: the filtered list can_call() built
    interacting,         \* history: on_interaction_start() returned, no on_interaction_end() since
    effects,             \* history: tool/effector calls of the current think cycle
    recorded,            \* history: record_call() ran in the current think cycle
    invocations,         \* history: start times of reasoner / behaviour-tree invocations
    nobs,                \* number of observe() calls so far
    _history,            \* NoveltyDetector._history: sensor -> earlier values
    ninteractions,       \* number of on_interaction_start() calls so far
    ticks,               \* number of loop iterations so far
    nerrors,             \* number of exceptions caught by _run_loop so far
    _lock,               \* AutonomousBrain._lock: the thread holding it, or "free"
    _mood_lock,          \* AutonomousBrain._mood_lock: the thread holding it, or "free"
    lpc,                 \* position of each thread in its sequence of lock operations
    memories,            \* MemoryManager: the memories table, id -> row
    tz,                  \* the local UTC offset in hours
    mpc,                 \* position of the maintainer thread
    m_running,           \* MemoryMaintainer._running
    mtimeout,            \* timeout of the maintainer's current _stop_event.wait
    groups,              \* _consolidate_memories: subjects still to visit, each with its ids
    batch,               \* _consolidate_subject_memories: valid_ids
    stats,               \* _do_maintenance: stats
    busy_seen,           \* history: is_busy() returned true at a check of this cycle
    reasoner_calls,      \* history: number of llm.prompt calls so far
    cycles,              \* number of is_busy() checks of _maintenance_loop so far
    faces,               \* MemoryManager: the faces table, id -> row
    duplicates,          \* _deduplicate_faces: the groups still to merge
    additional_seen,     \* merge_face_entries: the sum it has selected
    seen,                \* history: name -> sightings recorded for the name
    nsightings,          \* number of record_face_seen() calls so far
    engine,              \* BehaviorEngine: _greeting_cooldown, _recent_categories
    chosen,              \* the Decision the last decide() returned
    ndecides,            \* number of decide() calls so far
    recalled,            \* MemoryManager.recall: its position and its rows
    tricks,              \* MemoryManager: the tricks table, name -> row
    result,              \* what the last store or tool call returned
    _personality,        \* PersonalityManager._personality
    vision_callbacks,    \* ToolExecutor.vision_callbacks: the names registered
    _closed,             \* MemoryManager._closed
    _local,              \* MemoryManager._local: thread -> its connection
    opc,                 \* thread -> its position in a store operation
    nstore,              \* history: close() calls returned, operations started
    conversation_manager, \* ConversationManager: mode, _active, _start_time
    round,               \* VoiceAssistant: the round in progress, what its trigger heard
    outlived,            \* a loop thread that was alive when start() made the next one
    requests             \* the requests module: post, and each thread inside _make_request

vars == <<state, mood, rate_limiter, local_only, llm_callback,
          _observation_queue, _running, spc, latched, now, pc, obs,
          should_think,
          response, decision, vpc, ppc, pobs, gpc, gtimes, interacting,
          effects, recorded, invocations, nobs, _history, ninteractions,
          ticks, nerrors, _lock, _mood_lock, lpc, memories, tz, mpc,
          m_running, mtimeout, groups, batch, stats, busy_seen,
          reasoner_calls, cycles, faces, duplicates, additional_seen, seen,
          nsightings, engine, chosen, ndecides, recalled,
          tricks, result, _personality, vision_callbacks, _closed, _local,
          opc, nstore, conversation_manager, round, outlived, requests>>

----------------------------------------------------------------------------
(* Bounds of the environment *)

MaxObs == 1
MaxTicks == 2
MaxInteractions == 1
RateObs == 1
RateTicks == 2
RateHorizon == 35
DecisionTicks == 1
StopTicks == 2
QueueObs == 101
QueueTicks == 2
Epoch == 100

(* Program constants *)

\* the threads that call observe(): the sensor hooks of the voice loop and
\* the vision loop
NumProducers == 2

QueueMaxSize == 100
WindowSeconds == 60
One == 10000

Producers == 1 .. NumProducers

----------------------------------------------------------------------------
(* personality.py: Personality and Mood *)

Min(a, b) == IF a < b THEN a ELSE b
Max(a, b) == IF a > b THEN a ELSE b

DefaultPersonality ==
    [playfulness |-> 7000, curiosity |-> 8000, affection |-> 6000,
     energy |-> 5000, talkativeness |-> 6000]

DefaultMood ==
    [happiness |-> 5000, excitement |-> 3000, tiredness |-> 0,
     boredom |-> 0, curiosity_level |-> 3000]

\* a decay without the upper bounds
DecayUnbounded(m) ==
    [m EXCEPT !.excitement = Max(3000, m.excitement - 10),
              !.curiosity_level = Max(3000, m.curiosity_level - 10),
              !.boredom = m.boredom + 5,
              !.tiredness = m.tiredness + 1]

\* a decay that leaves boredom alone
DecayWithoutBoredom(m) ==
    [m EXCEPT !.excitement = Max(3000, m.excitement - 10),
              !.curiosity_level = Max(3000, m.curiosity_level - 10),
              !.tiredness = Min(One, m.tiredness + 1)]

\* a decay towards zero instead of the 0.3 baseline
DecayToZero(m) ==
    [m EXCEPT !.excitement = Max(0, m.excitement - 10),
              !.curiosity_level = Max(0, m.curiosity_level - 10),
              !.boredom = Min(One, m.boredom + 5),
              !.tiredness = Min(One, m.tiredness + 1)]

\* Mood.decay(dt) for dt = 0.1: decay_rate = 0.01 * dt = 10 units
Decay(m) ==
    [m EXCEPT !.excitement = Max(3000, m.excitement - 10),
              !.curiosity_level = Max(3000, m.curiosity_level - 10),
              !.boredom = Min(One, m.boredom + 5),
              !.tiredness = Min(One, m.tiredness + 1)]

OnInteraction(m) ==
    [m EXCEPT !.boredom = Max(0, m.boredom - 3000),
              !.happiness = Min(One, m.happiness + 1000),
              !.excitement = Min(One, m.excitement + 2000)]

OnNovelStimulus(m, novelty) ==
    [m EXCEPT !.curiosity_level = Min(One, m.curiosity_level + (novelty * 3) \div 10),
              !.boredom = Max(0, m.boredom - (novelty * 2) \div 10),
              !.excitement = Min(One, m.excitement + novelty \div 10)]

ShouldThink(m, personality) ==
    LET curiosity_threshold == 6000 - (personality.curiosity * 2) \div 10
        boredom_threshold == 8000 - (personality.curiosity * 2) \div 10
    IN  m.curiosity_level > curiosity_threshold \/ m.boredom > boredom_threshold

----------------------------------------------------------------------------
(* autonomous_brain.py: RateLimiter *)

\* the list can_call() builds: call times younger than a minute
RecentCalls(rl, t) ==
    LET Young(c) == c > t - WindowSeconds
    IN  SelectSeq(rl._call_times, Young)

IntervalPassed(rl, t) == ~(t - rl._last_call < rl.min_interval)

\* RateLimiter.can_call(): the value returned
CanCall(rl, t) ==
    /\ IntervalPassed(rl, t)
    /\ Len(RecentCalls(rl, t)) < rl.max_calls

\* RateLimiter.can_call(): the limiter afterwards
AfterCanCall(rl, t) ==
    IF IntervalPassed(rl, t)
    THEN [rl EXCEPT !._call_times = RecentCalls(rl, t)]
    ELSE rl

\* time_until_next(): min_interval - (now - _last_call)
IntervalWait(rl, t) == rl.min_interval - (t - rl._last_call)

\* min(self._call_times)
Oldest(rl) ==
    CHOOSE c \in {rl._call_times[i] : i \in DOMAIN rl._call_times} :
        \A i \in DOMAIN rl._call_times : c <= rl._call_times[i]

\* time_until_next(): the wait for the window, 0 when the list is shorter
\* than max_calls
WindowWait(rl, t) ==
    IF Len(rl._call_times) >= rl.max_calls
    THEN Max(0, WindowSeconds - (t - Oldest(rl)))
    ELSE 0

\* RateLimiter.time_until_next(): the value returned
TimeUntilNext(rl, t) ==
    IF IntervalWait(rl, t) > 0 THEN IntervalWait(rl, t)
    ELSE WindowWait(rl, t)

\* a record_call() that forgets the time of the last call
RecordCallNoLast(rl, t) ==
    [rl EXCEPT !._call_times = Append(rl._call_times, t)]

RecordCall(rl, t) ==
    [rl EXCEPT !._call_times = Append(rl._call_times, t), !._last_call = t]

----------------------------------------------------------------------------
(* tools.py: ToolExecutor.parse_response                                   *)
(*                                                                         *)
(* A reply is a sequence of lines.  A line is a code fence, a line that    *)
(* starts with "{" (a JSON object, complete or cut off), an "ACTIONS:"     *)
(* line, a "TOOL:" line, or plain text.                                    *)

FenceLine == [k |-> "fence", raw |-> "FENCE", valid |-> FALSE,
              speech |-> <<>>, actions |-> <<>>, tools |-> <<>>]
JsonLine(raw, valid, speech, actions, tools) ==
    [k |-> "json", raw |-> raw, valid |-> valid,
     speech |-> speech, actions |-> actions, tools |-> tools]
TextLine(raw) == [k |-> "text", raw |-> raw, valid |-> FALSE,
                  speech |-> <<>>, actions |-> <<>>, tools |-> <<>>]
ActionsLine(actions) == [k |-> "actions", raw |-> "ACTIONS:", valid |-> FALSE,
                         speech |-> <<>>, actions |-> actions, tools |-> <<>>]
ToolLine(name) == [k |-> "tool", raw |-> "TOOL:", valid |-> FALSE,
                   speech |-> <<>>, actions |-> <<>>, tools |-> <<name>>]

NoDecision == [speech |-> <<>>, actions |-> <<>>, tools |-> <<>>]

\* _parse_legacy_format: the last non-empty ACTIONS: line wins, every TOOL:
\* line adds a tool, every other non-empty line is speech
RECURSIVE ParseLegacyFormat(_, _)
ParseLegacyFormat(lines, acc) ==
    IF lines = <<>> THEN acc
    ELSE LET l == Head(lines)
             next == CASE l.k = "actions" ->
                             IF l.actions # <<>>
                             THEN [acc EXCEPT !.actions = l.actions] ELSE acc
                      [] l.k = "tool" ->
                             [acc EXCEPT !.tools = acc.tools \o l.tools]
                      [] OTHER ->
                             [acc EXCEPT !.speech = Append(acc.speech, l.raw)]
         IN  ParseLegacyFormat(Tail(lines), next)

\* the text after the markdown fences are stripped
StripFences(text) ==
    IF text # <<>> /\ Head(text).k = "fence"
    THEN LET rest == Tail(text)
         IN  IF rest # <<>> /\ rest[Len(rest)].k = "fence"
             THEN SubSeq(rest, 1, Len(rest) - 1) ELSE rest
    ELSE text

\* json.loads succeeds on a single complete object only
ParseResponse(text) ==
    LET stripped == StripFences(text)
    IN  IF stripped # <<>> /\ Head(stripped).k = "json"
           /\ Len(stripped) = 1 /\ Head(stripped).valid
        THEN [speech |-> Head(stripped).speech,
              actions |-> Head(stripped).actions,
              tools |-> Head(stripped).tools]
        ELSE ParseLegacyFormat(text, NoDecision)

----------------------------------------------------------------------------
(* Observations (autonomous_brain.py: Observation).  The value of a vision *)
(* observation is a dict with an event and a name, unless is_dict is       *)
(* FALSE; a touch value is the text, an ultrasonic value the distance.     *)

Obs(sensor_type, is_dict, event, name, text, dist, novelty) ==
    [sensor_type |-> sensor_type, is_dict |-> is_dict, event |-> event,
     name |-> name, text |-> text, dist |-> dist, novelty |-> novelty]

NoObs == Obs("none", FALSE, "", "", "", 0, 0)

\* no loop thread beside the one self._thread names
NoThread == [pc |-> "none", ticks |-> 0]

\* the threads that own a RobustLLM: the brain's and the maintainer's
RequestThreads == {"brain", "maintainer"}

\* requests.post is a function: <<>> is the library's own post, and
\* <<t>> \o f is the timeout_post that thread t made around f.  Nobody is
\* inside _make_request.
NoRequests ==
    [post |-> <<>>,
     original_post |-> [th \in RequestThreads |-> <<>>],
     pc |-> [th \in RequestThreads |-> "idle"],
     calls |-> [th \in RequestThreads |-> 0]]
VisionObs(event, name, novelty) == Obs("vision", TRUE, event, name, "", 0, novelty)
TouchObs(text, novelty) == Obs("touch", FALSE, "", "", text, 0, novelty)
UltrasonicObs(dist, novelty) == Obs("ultrasonic", FALSE, "", "", "", dist, novelty)
\* observe("vision", "person"): a value without .get()
BadVisionObs == Obs("vision", FALSE, "", "", "person", 0, 0)

----------------------------------------------------------------------------
(* autonomous_brain.py: NoveltyDetector.  The history of a sensor holds    *)
(* the event of a vision value, the text of a touch value, the distance of *)
(* an ultrasonic value.                                                    *)

HistorySize == 100
RecentSize == 10

HistoryValue(o) ==
    CASE o.sensor_type = "vision" -> o.event
      [] o.sensor_type = "touch" -> o.text
      [] OTHER -> o.dist

Count(h, v) == Cardinality({i \in DOMAIN h : h[i] = v})

\* _numeric_novelty for a reading equal to every reading of the history:
\* the mean is the reading, z = 0.  The readings of this model are equal.
NumericNovelty(value, history) ==
    CASE history = <<>> -> One
      [] \A i \in DOMAIN history : history[i] = value -> 0

CategoricalNovelty(value, history) ==
    IF history = <<>> THEN One
    ELSE One - (Count(history, value) * One) \div Len(history)

VisionNovelty(event_type, history) ==
    IF history = <<>> THEN One
    ELSE LET recent == IF Len(history) >= RecentSize
                       THEN SubSeq(history, Len(history) - RecentSize + 1, Len(history))
                       ELSE history
         IN  Max(2000, One - (Count(recent, event_type) * One) \div Len(recent))

\* add_observation raises: value.get of a vision value that is no dict
\* (the first observation of a sensor returns before it looks at the value)
NoveltyRaises(o, hist) ==
    o.sensor_type \in DOMAIN hist /\ o.sensor_type = "vision" /\ ~o.is_dict

\* add_observation: the score returned
Novelty(o, hist) ==
    IF o.sensor_type \notin DOMAIN hist THEN One
    ELSE LET history == hist[o.sensor_type]
         IN  CASE o.sensor_type = "ultrasonic" -> NumericNovelty(o.dist, history)
               [] o.sensor_type = "touch" -> CategoricalNovelty(o.text, history)
               [] o.sensor_type = "vision" -> VisionNovelty(o.event, history)

\* add_observation: the history afterwards
AddObservation(o, hist) ==
    IF o.sensor_type \notin DOMAIN hist
    THEN [s \in DOMAIN hist \cup {o.sensor_type} |->
             IF s = o.sensor_type THEN <<>> ELSE hist[s]]
    ELSE LET longer == Append(hist[o.sensor_type], HistoryValue(o))
         IN  [hist EXCEPT ![o.sensor_type] =
                 IF Len(longer) > HistorySize THEN Tail(longer) ELSE longer]

----------------------------------------------------------------------------
(* MemoryManager: the memories table.  importance is in units of 1/1000;  *)
(* age is the time since last_accessed (CURRENT_TIMESTAMP, UTC) in hours. *)

ImpOne == 1000

\* a JSON value for "importance" that is not a number (null, a string)
NotANumber == 0 - 1000000

\* MaintenanceConfig defaults
AccessProtectionDays == 7
DecayRatePerDay == 10
DecayTolerance == 1
MinImportance == 200
InitialDelaySeconds == 300
BusyRetrySeconds == 300
IntervalSeconds == 21600

\* _decay_importance: max_importance=0.9
StaleMaxImportance == 900

\* merged.get("importance", 0.5)
DefaultImportance == 500

NoMemories == [id \in {} |-> 0]

Row(subject, content, importance, age, access_count) ==
    [category |-> "fact", subject |-> subject, content |-> content,
     importance |-> importance, age |-> age, access_count |-> access_count]

\* the same row in another category
InCategory(row, category) == [row EXCEPT !.category = category]

\* cursor.lastrowid of an INSERT: one more than the largest id in use
NewId(mem) ==
    IF DOMAIN mem = {} THEN 1
    ELSE (CHOOSE i \in DOMAIN mem : \A j \in DOMAIN mem : j <= i) + 1

\* max(0.0, min(1.0, importance))
Clamp(importance) == Max(0, Min(ImpOne, importance))

\* max / min of a float and a value that is not a number raise TypeError
ClampRaises(importance) == importance = NotANumber

\* MemoryManager.VALID_ACTIONS
ValidActions ==
    {"forward", "backward", "lie", "stand", "sit", "bark", "bark harder",
     "pant", "howling", "wag tail", "stretch", "push up", "scratch",
     "handshake", "high five", "lick hand", "shake head", "relax neck",
     "nod", "think", "recall", "head down", "fluster", "surprise",
     "turn left", "turn right", "stop"}

\* AutonomousDog.VALID_ACTIONS: the actions the dispatcher knows
DogValidActions ==
    {"forward", "backward", "turn left", "turn right", "stop",
     "lie", "stand", "sit", "bark", "bark harder", "pant",
     "wag tail", "shake head", "stretch", "doze off", "push up",
     "howling", "twist body", "scratch", "handshake", "high five",
     "lick hand", "waiting", "feet shake", "relax neck", "nod",
     "think", "recall", "fluster", "surprise"}

MaxActionsPerTrick == 10

\* str.lower() on the tokens that are written
Lower(a) ==
    IF a = "SIT" THEN "sit" ELSE IF a = "Spin" THEN "spin"
    ELSE IF a = "Explore" THEN "explore" ELSE a

LowerAll(actions) == [i \in DOMAIN actions |-> Lower(actions[i])]

\* learn_trick: [a for a in actions if a.lower() not in VALID_ACTIONS]
InvalidActions(actions) ==
    {i \in DOMAIN actions : Lower(actions[i]) \notin ValidActions}

\* learn_trick: the reason of the rejection, "None" when there is none
LearnTrickRejects(actions) ==
    IF Len(actions) > MaxActionsPerTrick THEN "Too many actions"
    ELSE IF InvalidActions(actions) # {} THEN "Invalid actions"
    ELSE "None"

\* learn_trick: INSERT OR REPLACE INTO tricks (name, trigger_phrase, actions)
StoreTrick(t, name, trigger_phrase, actions) ==
    [n \in DOMAIN t \cup {Lower(name)} |->
        IF n = Lower(name)
        THEN [trigger_phrase |-> Lower(trigger_phrase),
              actions |-> LowerAll(actions)]
        ELSE t[n]]

\* delete_trick: DELETE FROM tricks WHERE name = ?
DeleteTrick(t, name) == [n \in DOMAIN t \ {Lower(name)} |-> t[n]]

\* recall: WHERE memories_fts MATCH ?  (the full-text mirror of the memories
\* table covers subject and content)
Matches(mem, query) ==
    {i \in DOMAIN mem : mem[i].subject = query \/ mem[i].content = query}

\* recall: ORDER BY rank LIMIT ?  (the first rows in the order of the
\* full-text rank, which the query alone does not fix)
RankedRows(mem, query, limit) ==
    {ids \in SUBSET Matches(mem, query) :
        Cardinality(ids) = Min(limit, Cardinality(Matches(mem, query)))}

\* an update that reaches every row of the table
TouchEveryRow(mem, ids) ==
    [i \in DOMAIN mem |-> [mem[i] EXCEPT !.age = 0, !.access_count = @ + 1]]

\* recall: UPDATE memories SET last_accessed = CURRENT_TIMESTAMP,
\* access_count = access_count + 1 WHERE id IN (ids)
TouchRows(mem, ids) ==
    [i \in DOMAIN mem |->
        IF i \in ids THEN [mem[i] EXCEPT !.age = 0, !.access_count = @ + 1]
        ELSE mem[i]]

\* remember(category, subject, content, importance)
Remember(mem, subject, content, importance) ==
    [i \in DOMAIN mem \cup {NewId(mem)} |->
        IF i \in DOMAIN mem THEN mem[i]
        ELSE Row(subject, content, Clamp(importance), 0, 0)]

\* update_memory_importance(memory_id, importance)
UpdateMemoryImportance(mem, memory_id, importance) ==
    [i \in DOMAIN mem |->
        IF i = memory_id
        THEN [mem[i] EXCEPT !.importance = Clamp(importance)]
        ELSE mem[i]]

\* update_memory_content(memory_id, content)
UpdateMemoryContent(mem, memory_id, content) ==
    [i \in DOMAIN mem |->
        IF i = memory_id THEN [mem[i] EXCEPT !.content = content]
        ELSE mem[i]]

\* bulk_update_importance(updates), updates a function id -> importance
BulkUpdateImportance(mem, updates) ==
    [i \in DOMAIN mem |->
        IF i \in DOMAIN updates
        THEN [mem[i] EXCEPT !.importance = updates[i]]
        ELSE mem[i]]

\* bulk_delete_memories(ids)
BulkDeleteMemories(mem, ids) == [i \in DOMAIN mem \ ids |-> mem[i]]

\* get_stats()["memories"]
GetStats(mem) == Cardinality(DOMAIN mem)

\* get_stale_memories(days_since_access, max_importance):
\* last_accessed < datetime('now', '-N days') AND importance <= ?
GetStaleMemories(mem, days_since_access, max_importance) ==
    {i \in DOMAIN mem :
        /\ mem[i].age > 24 * days_since_access
        /\ mem[i].importance <= max_importance}

\* ORDER BY importance ASC, access_count ASC, last_accessed ASC
PruneBefore(a, b) ==
    \/ a.importance < b.importance
    \/ /\ a.importance = b.importance
       /\ \/ a.access_count < b.access_count
          \/ a.access_count = b.access_count /\ a.age > b.age

\* get_prune_candidates(max_importance, limit): the results the query can
\* return; rows that are equal in the three columns come in any order
GetPruneCandidates(mem, max_importance, limit) ==
    LET eligible == {i \in DOMAIN mem : mem[i].importance <= max_importance}
    IN  {ids \in SUBSET eligible :
            /\ Cardinality(ids) = Min(limit, Cardinality(eligible))
            /\ \A i \in ids : \A k \in eligible \ ids :
                   ~PruneBefore(mem[k], mem[i])}

\* the subjects of the stored memories, in the order of ORDER BY subject
SubjectOrder == <<"Ann", "Joe">>

GroupIds(mem, subject) == {i \in DOMAIN mem : mem[i].subject = subject}

\* MemoryMaintainer.__init__ beside a store holding mem
InitMaintainer(mem, offset) ==
    /\ memories = mem
    /\ tz = offset
    /\ mpc = "none"
    /\ m_running = FALSE
    /\ mtimeout = 0
    /\ groups = <<>>
    /\ batch = [subject |-> "", valid_ids |-> {}, importance |-> <<>>]
    /\ stats = [decayed_count |-> 0, consolidated_count |-> 0,
                pruned_count |-> 0, merged_faces_count |-> 0]
    /\ busy_seen = FALSE
    /\ reasoner_calls = 0
    /\ cycles = 0

----------------------------------------------------------------------------
(* MemoryManager: the faces table.  An encoding is a point on a line in    *)
(* units of 0.1 (the distance of two encodings is their difference), or    *)
(* bytes that np.frombuffer rejects.                                       *)

BadEncoding == 0 - 1
FaceDistanceThreshold == 4

NoFaces == [i \in {} |-> 0]

FaceRow(name, encoding, times_seen) ==
    [name |-> name, encoding |-> encoding, times_seen |-> times_seen]

\* Face(id=row['id'], name=row['name'], ...)
Face(f, i) ==
    [id |-> i, name |-> f[i].name, encoding |-> f[i].encoding,
     times_seen |-> f[i].times_seen]

\* get_all_faces(): SELECT * FROM faces ORDER BY times_seen DESC; the order
\* of rows with equal times_seen is not fixed by the query
GetAllFaces(f) ==
    {[k \in DOMAIN order |-> Face(f, order[k])] :
        order \in {o \in [1 .. Cardinality(DOMAIN f) -> DOMAIN f] :
                      /\ \A j, k \in DOMAIN o : j # k => o[j] # o[k]
                      /\ \A j, k \in DOMAIN o :
                            j < k => f[o[j]].times_seen >= f[o[k]].times_seen}}

\* record_face_seen(face_id): UPDATE faces SET times_seen = times_seen + 1
RecordFaceSeenRow(f, face_id) ==
    [i \in DOMAIN f |->
        IF i = face_id THEN [f[i] EXCEPT !.times_seen = @ + 1] ELSE f[i]]

\* np.linalg.norm(encodings[i] - encodings[j])
Distance(a, b) == IF a > b THEN a - b ELSE b - a

\* by_name: the names in the order of their first face
RECURSIVE NamesInOrder(_)
NamesInOrder(all) ==
    IF all = <<>> THEN <<>>
    ELSE LET rest == NamesInOrder(SubSeq(all, 1, Len(all) - 1))
             name == all[Len(all)].name
         IN  IF \E k \in DOMAIN rest : rest[k] = name THEN rest
             ELSE Append(rest, name)

\* the loop over i of get_duplicate_faces for the faces of one name: a face
\* that is not used yet and has an encoding opens a group, and takes every
\* later unused face closer than the threshold to it
RECURSIVE GroupsFrom(_, _, _, _)
GroupsFrom(name_faces, i, used, distance_threshold) ==
    IF i > Len(name_faces) THEN <<>>
    ELSE IF i \in used \/ name_faces[i].encoding = BadEncoding
    THEN GroupsFrom(name_faces, i + 1, used, distance_threshold)
    ELSE LET members ==
                 {j \in (i + 1) .. Len(name_faces) :
                     /\ j \notin used
                     /\ name_faces[j].encoding # BadEncoding
                     /\ Distance(name_faces[i].encoding, name_faces[j].encoding)
                            < distance_threshold}
             group ==
                 SelectSeq(name_faces,
                           LAMBDA f : \E j \in members \cup {i} : name_faces[j].id = f.id)
         IN  (IF members # {} THEN <<group>> ELSE <<>>)
                 \o GroupsFrom(name_faces, i + 1, used \cup {i} \cup members,
                               distance_threshold)

RECURSIVE GroupsOfNames(_, _, _)
GroupsOfNames(all, names, distance_threshold) ==
    IF names = <<>> THEN <<>>
    ELSE GroupsFrom(SelectSeq(all, LAMBDA f : f.name = Head(names)), 1, {},
                    distance_threshold)
             \o GroupsOfNames(all, Tail(names), distance_threshold)

\* get_duplicate_faces(distance_threshold) on the rows get_all_faces gave
GetDuplicateFaces(all, distance_threshold) ==
    IF Len(all) < 2 THEN <<>>
    ELSE GroupsOfNames(all, NamesInOrder(all), distance_threshold)

\* group.sort(key=lambda f: f.times_seen, reverse=True): a stable sort
RECURSIVE SortByTimesSeen(_)
SortByTimesSeen(group) ==
    IF group = <<>> THEN <<>>
    ELSE LET sorted == SortByTimesSeen(SubSeq(group, 1, Len(group) - 1))
             f == group[Len(group)]
             before == SelectSeq(sorted, LAMBDA g : g.times_seen >= f.times_seen)
             after == SelectSeq(sorted, LAMBDA g : g.times_seen < f.times_seen)
         IN  before \o <<f>> \o after

RECURSIVE SumTimesSeen(_, _)
SumTimesSeen(f, ids) ==
    IF ids = {} THEN 0
    ELSE LET i == CHOOSE x \in ids : TRUE
         IN  f[i].times_seen + SumTimesSeen(f, ids \ {i})

\* merge_face_entries: SELECT SUM(times_seen) FROM faces WHERE id IN (...)
SelectSum(f, delete_ids) == SumTimesSeen(f, delete_ids \cap DOMAIN f)

\* merge_face_entries: UPDATE faces SET times_seen = times_seen + ? WHERE
\* id = keep_id; DELETE FROM faces WHERE id IN (...); commit
MergeFaceEntries(f, keep_id, delete_ids, additional) ==
    [i \in DOMAIN f \ delete_ids |->
        IF i = keep_id THEN [f[i] EXCEPT !.times_seen = @ + additional]
        ELSE f[i]]

FaceNames == {"Ann", "Joe"}

\* the sum of times_seen over the faces of a name
NameSum(f, name) == SumTimesSeen(f, {i \in DOMAIN f : f[i].name = name})

InitFaces(f) ==
    /\ faces = f
    /\ duplicates = <<>>
    /\ additional_seen = 0
    /\ seen = [name \in FaceNames |-> NameSum(f, name)]
    /\ nsightings = 0

----------------------------------------------------------------------------
(* behavior_engine.py: BehaviorEngine.  A Decision is the branch of the    *)
(* tree that made it, the template category it used and its tools; the    *)
(* random choices of the engine are choices of the model.                  *)

CooldownSeconds == 60
ReturningSeconds == 300
ObstacleDetectedDistance == 30
ObstacleReactDistance == 15
TooCloseDistance == 10

NoCooldown == [name \in {} |-> 0]

\* BehaviorEngine.__init__
NewEngine == [_greeting_cooldown |-> NoCooldown, _recent_categories |-> <<>>]

NoChoice == [branch |-> "none", category |-> "", tools |-> <<>>]

Choice(branch, category, tools) ==
    [branch |-> branch, category |-> category, tools |-> tools]

InitEngine ==
    /\ engine = NewEngine
    /\ chosen = NoChoice
    /\ ndecides = 0

\* _build_observation_context: the latched fields at time t, and the first
\* active goal of the store ("None" when there is none)
BuildObservationContext(l, t, goal) ==
    [person_detected |-> l._person_detected,
     person_name |-> l._recent_person,
     person_is_returning |->
         /\ l._person_detected
         /\ l._recent_person # "None"
         /\ ~l._person_is_new
         /\ l._person_left_time > 0
         /\ t - l._person_left_time < ReturningSeconds,
     obstacle_detected |-> l._obstacle_distance < ObstacleDetectedDistance,
     obstacle_distance |-> l._obstacle_distance,
     touch_detected |-> l._touch_detected,
     touch_style |-> l._touch_style,
     has_active_goal |-> goal # "None",
     active_goal_description |-> goal]

\* _track_category: the last five categories
TrackCategory(e, category) ==
    LET all == Append(e._recent_categories, category)
    IN  [e EXCEPT !._recent_categories =
             IF Len(all) > 5 THEN Tail(all) ELSE all]

\* the engine and the Decision after one handler: a set, one element for
\* each outcome of the handler's random choices
Tracked(e, branch, categories, tools) ==
    {[engine |-> TrackCategory(e, c), chosen |-> Choice(branch, c, tools)] :
        c \in categories}

\* _handle_idle
HandleIdle(e) ==
    Tracked(e, "idle", {"happy_content", "curious_sniffing", "idle_sounds"}, <<>>)

\* self._greeting_cooldown.get(name, 0)
LastGreeted(e, name) ==
    IF name \in DOMAIN e._greeting_cooldown THEN e._greeting_cooldown[name] ELSE 0

\* a cooldown that has always passed
CooldownNever(e, name, t) == FALSE

\* time.time() - last_greeted < cooldown_seconds
OnCooldown(e, name, t) == t - LastGreeted(e, name) < CooldownSeconds

CooldownName(ctx) ==
    IF ctx.person_name # "None" THEN ctx.person_name ELSE "unknown"

\* _handle_person
HandlePerson(e, mood_, ctx, t) ==
    LET name == CooldownName(ctx)
        category ==
            IF ctx.person_name # "None"
            THEN IF ctx.person_is_returning THEN "greeting_returning_person"
                 ELSE "greeting_known_person"
            ELSE "greeting_unknown_person"
        subject ==
            IF ctx.person_name # "None" THEN ctx.person_name ELSE "unknown person"
        greeted ==
            [e EXCEPT !._greeting_cooldown =
                 [n \in DOMAIN @ \cup {name} |-> IF n = name THEN t ELSE @[n]]]
    IN  IF OnCooldown(e, name, t)
        THEN IF mood_.excitement > 6000
             THEN {[engine |-> e,
                    chosen |-> Choice("acknowledge", "happy_general", <<>>)]}
             ELSE HandleIdle(e)
        ELSE Tracked(greeted, "person", {category},
                     <<[name |-> "remember", subject |-> subject]>>)

\* _handle_obstacle
HandleObstacle(e, ctx) ==
    Tracked(e, "obstacle",
            {IF ctx.obstacle_distance < TooCloseDistance
             THEN "reaction_too_close" ELSE "reaction_obstacle"}, <<>>)

\* _handle_touch
HandleTouch(e, ctx) ==
    Tracked(e, "touch",
            {CASE ctx.touch_style \in {"FRONT_TO_REAR", "PRESS"} -> "affection_being_pet"
               [] ctx.touch_style = "REAR_TO_FRONT" -> "response_bad_dog"
               [] OTHER -> "reaction_surprised"}, <<>>)

\* _handle_goal: goal_working_on is tracked; one time in ten the goal is
\* completed
HandleGoal(e) ==
    {[engine |-> TrackCategory(e, "goal_working_on"),
      chosen |-> Choice("goal", "goal_working_on", <<>>)],
     [engine |-> TrackCategory(e, "goal_working_on"),
      chosen |-> Choice("goal", "goal_completed",
                        <<[name |-> "complete_goal", subject |-> ""]>>)]}

\* _handle_mood: the empty set stands for None
HandleMood(e, mood_, personality) ==
    IF mood_.boredom > 7000
    THEN Tracked(e, "mood",
                 {IF personality.playfulness > 6000 THEN "bored_playful"
                  ELSE IF personality.energy > 5000 THEN "bored_restless"
                  ELSE "bored_idle"}, <<>>)
    ELSE IF mood_.curiosity_level > 6000
    THEN Tracked(e, "mood",
                 {"curious_investigating", "curious_sniffing", "exploring_start"},
                 <<>>)
    ELSE IF mood_.tiredness > 7000
    THEN Tracked(e, "mood",
                 {IF mood_.tiredness > 9000 THEN "tired_going_to_sleep"
                  ELSE "tired_general"}, <<>>)
    ELSE IF mood_.happiness > 6000 /\ mood_.excitement > 5000
    THEN Tracked(e, "mood",
                 {IF mood_.excitement > 7000 THEN "happy_excited"
                  ELSE "happy_general"}, <<>>)
    ELSE {}

\* a tree that looks at the obstacle first
EvaluateTreeObstacleFirst(e, mood_, personality, ctx, t) ==
    IF ctx.obstacle_detected /\ ctx.obstacle_distance < ObstacleReactDistance
    THEN HandleObstacle(e, ctx)
    ELSE IF ctx.person_detected THEN HandlePerson(e, mood_, ctx, t)
    ELSE HandleIdle(e)

\* _evaluate_tree
EvaluateTree(e, mood_, personality, ctx, t) ==
    IF ctx.person_detected THEN HandlePerson(e, mood_, ctx, t)
    ELSE IF ctx.obstacle_detected /\ ctx.obstacle_distance < ObstacleReactDistance
    THEN HandleObstacle(e, ctx)
    ELSE IF ctx.touch_detected THEN HandleTouch(e, ctx)
    ELSE IF ctx.has_active_goal /\ ctx.active_goal_description # ""
    THEN HandleGoal(e)
    ELSE IF HandleMood(e, mood_, personality) # {}
    THEN HandleMood(e, mood_, personality)
    ELSE HandleIdle(e)

\* the tables and components beside the memories table, as they are before
\* anything was stored
\* MemoryManager.recall has not been called
NoRecall == [pc |-> "idle", ids |-> {}, calls |-> 0]

NoTricks == [name \in {} |-> 0]

----------------------------------------------------------------------------
(* tools.py: ToolExecutor.  A tool call is a name and a params dictionary  *)
(* (a function from keys to values); a ToolResult is success and message.  *)

\* ToolExecutor._tools: the names of the handler table
ToolNames ==
    {"remember", "recall", "learn_trick", "do_trick", "list_tricks",
     "set_goal", "complete_goal", "list_goals", "update_personality",
     "learn_face", "learn_room", "follow_person", "find_person",
     "go_to_room", "explore"}

\* JSON values of "name" that are not strings (a number, null)
NotStrings == {"<5>", "<null>"}

\* PersonalityManager.VALID_TRAITS
ValidTraits ==
    {"playfulness", "curiosity", "affection", "energy", "talkativeness"}

\* _tool_remember: valid_categories
ValidCategories == {"person", "fact", "preference", "experience", "location"}

\* the rooms table
KnownRooms == {"kitchen"}

NoParams == [key \in {} |-> ""]
NoCall == [name |-> "None", params |-> NoParams]
ToolCall(name, params) == [name |-> name, params |-> params]

\* params.get(key, default)
Param(params, key, default) ==
    IF key \in DOMAIN params THEN params[key] ELSE default

Outcome(success, message, mem, t, p) ==
    [success |-> success, message |-> message, raised |-> FALSE,
     category |-> "None", memories |-> mem, tricks |-> t, personality |-> p]

\* _tool_remember.  remember() raises TypeError on an importance that is
\* not a number; execute_tool catches it.
ToolRemember(params, mem, t, p) ==
    LET category == Param(params, "category", "fact")
        subject == Param(params, "subject", "")
        content == Param(params, "content", "")
        importance == Param(params, "importance", DefaultImportance)
    IN  IF subject = "" \/ content = ""
        THEN Outcome(FALSE, "Missing subject or content", mem, t, p)
        ELSE IF ClampRaises(importance)
        THEN Outcome(FALSE, "Tool error", mem, t, p)
        ELSE [Outcome(TRUE, "Remembered",
                      Remember(mem, subject, content, importance), t, p)
                 EXCEPT !.category = IF category \in ValidCategories
                                     THEN category ELSE "fact"]

\* _tool_learn_trick
ToolLearnTrick(params, mem, t, p) ==
    LET name == Param(params, "name", "")
        trigger == Param(params, "trigger", "")
        actions == Param(params, "actions", <<>>)
    IN  IF name = "" \/ trigger = "" \/ actions = <<>>
        THEN Outcome(FALSE, "Missing name, trigger, or actions", mem, t, p)
        ELSE IF LearnTrickRejects(actions) # "None"
        THEN Outcome(FALSE, LearnTrickRejects(actions), mem, t, p)
        ELSE Outcome(TRUE, "Learned trick", mem,
                     StoreTrick(t, name, trigger, actions), p)

\* PersonalityManager.update(trait, value)
PersonalityUpdate(p, trait, value) ==
    [p EXCEPT ![trait] = Max(0, Min(One, value))]

\* _tool_update_personality.  float(value) raises ValueError on a string
\* that is not a number; execute_tool catches it.  None is a missing value.
ToolUpdatePersonality(params, mem, t, p) ==
    LET trait == Param(params, "trait", "")
    IN  IF trait = "" \/ "value" \notin DOMAIN params
        THEN Outcome(FALSE, "Missing trait or value", mem, t, p)
        ELSE IF params["value"] = NotANumber
        THEN Outcome(FALSE, "Tool error", mem, t, p)
        ELSE IF trait \notin ValidTraits
        THEN Outcome(FALSE, "Invalid trait", mem, t, p)
        ELSE Outcome(TRUE, "Updated", mem, t,
                     PersonalityUpdate(p, trait, params["value"]))

\* _tool_learn_face, _tool_learn_room, _tool_find_person,
\* _tool_follow_person: the callback registered under the name of the tool
ToolVision(tool, params, callbacks, callback_raises, mem, t, p) ==
    IF tool # "follow_person" /\ Param(params, "name", "") = ""
    THEN Outcome(FALSE, IF tool = "learn_room" THEN "Missing room name"
                        ELSE "Missing name", mem, t, p)
    ELSE IF tool \in callbacks
    THEN IF callback_raises THEN Outcome(FALSE, "Failed", mem, t, p)
         ELSE Outcome(TRUE, "Done", mem, t, p)
    ELSE Outcome(FALSE, "Vision not available", mem, t, p)

\* _tool_go_to_room, _tool_explore
ToolNavigation(tool, params, callbacks, callback_raises, mem, t, p) ==
    IF tool = "go_to_room" /\ Param(params, "name", "") = ""
    THEN Outcome(FALSE, "Missing room name", mem, t, p)
    ELSE IF tool = "go_to_room" /\ params["name"] \notin KnownRooms
    THEN Outcome(FALSE, "Unknown room", mem, t, p)
    ELSE IF tool \in callbacks
    THEN IF callback_raises THEN Outcome(FALSE, "Failed", mem, t, p)
         ELSE Outcome(TRUE, "Done", mem, t, p)
    ELSE Outcome(FALSE, "Navigation not available", mem, t, p)

VisionTools == {"learn_face", "learn_room", "follow_person", "find_person"}
NavigationTools == {"go_to_room", "explore"}

\* the handlers followed here
FollowedTools ==
    {"remember", "learn_trick", "update_personality"}
        \cup VisionTools \cup NavigationTools

\* execute_tool(tool_name, params): tool_name.lower() is outside the try
\* block and raises AttributeError on a name that is not a string
ExecuteToolOutcome(call, callbacks, callback_raises, mem, t, p) ==
    LET tool == Lower(call.name)
    IN  IF call.name \in NotStrings
        THEN [Outcome(FALSE, "AttributeError", mem, t, p)
                 EXCEPT !.raised = TRUE]
        ELSE IF tool \notin ToolNames
        THEN Outcome(FALSE, "Unknown tool", mem, t, p)
        ELSE IF tool = "remember" THEN ToolRemember(call.params, mem, t, p)
        ELSE IF tool = "learn_trick"
        THEN ToolLearnTrick(call.params, mem, t, p)
        ELSE IF tool = "update_personality"
        THEN ToolUpdatePersonality(call.params, mem, t, p)
        ELSE IF tool \in VisionTools
        THEN ToolVision(tool, call.params, callbacks, callback_raises,
                        mem, t, p)
        ELSE ToolNavigation(tool, call.params, callbacks, callback_raises,
                            mem, t, p)

\* nothing has been called yet
NoResult ==
    [success |-> TRUE, message |-> "None", raised |-> FALSE,
     category |-> "None", call |-> NoCall, calls |-> 0]

\* the return of a store operation
Returned(success, message) ==
    [success |-> success, message |-> message, raised |-> FALSE,
     category |-> "None", call |-> NoCall, calls |-> result.calls + 1]

\* the threads that use the store: the brain's loop and the maintainer
StoreThreads == {"brain", "maintainer"}

NoOperation == [pc |-> "idle", after_close |-> FALSE, outcome |-> "None"]

\* a _get_conn that never looks at _closed
NeverRaises(closed) == FALSE

\* _get_conn: with self._close_lock: if self._closed: raise RuntimeError
GetConnRaises(closed) == closed

InitStoreWith(callbacks) ==
    /\ recalled = NoRecall
    /\ tricks = NoTricks
    /\ result = NoResult
    /\ _personality = DefaultPersonality
    /\ vision_callbacks = callbacks
    /\ _closed = FALSE
    /\ _local = [th \in StoreThreads |-> "None"]
    /\ opc = [th \in StoreThreads |-> NoOperation]
    /\ nstore = [closes |-> 0, operations |-> 0]

InitStore == InitStoreWith({})

----------------------------------------------------------------------------
(* conversation_manager.py: ConversationManager, and the round of the      *)
(* VoiceAssistant that calls its trigger.  Times are whole seconds.        *)

ValidModes == {"none", "timeout", "vad"}

EndPhrases ==
    {"bye", "goodbye", "thanks", "thank you", "that's all", "see you later",
     "see ya", "later", "bye bye"}

\* AutonomousDog.__init__: conversation_timeout = 15.0
ConversationTimeout == 15

\* trigger: listen for up to 3 seconds at a time
ListenSeconds == 3

\* the phrases of END_PHRASES that text.lower() contains, for the
\* utterances of this model
EndPhrasesIn(text) ==
    CASE text = "Bye" -> {"bye"}
      [] text = "OK thanks" -> {"thanks"}
      [] text = "Tell me later" -> {"later"}
      [] text = "Goodbye Buddy" -> {"goodbye", "bye"}
      [] OTHER -> {}

\* should_end
ShouldEnd(text) == text # "" /\ EndPhrasesIn(text) \cap EndPhrases # {}

\* __init__
NewConversation(mode) == [mode |-> mode, _active |-> FALSE, _start_time |-> 0]

\* activate
Activate(cm, t) ==
    IF cm.mode # "none" THEN [cm EXCEPT !._active = TRUE, !._start_time = t]
    ELSE cm

\* deactivate
Deactivate(cm) == [cm EXCEPT !._active = FALSE]

\* is_active: the manager afterwards
AfterIsActive(cm, t) ==
    IF ~cm._active \/ cm.mode = "none" THEN cm
    ELSE IF cm.mode = "timeout" /\ t - cm._start_time > ConversationTimeout
         THEN [cm EXCEPT !._active = FALSE]
         ELSE cm

\* is_active: the value returned
IsActive(cm, t) ==
    IF ~cm._active \/ cm.mode = "none" THEN FALSE
    ELSE AfterIsActive(cm, t)._active

\* the voice assistant waits for the wake word or a trigger; nothing was
\* heard yet
NoRound ==
    [pc |-> "listen", by |-> "none", message |-> "", heard |-> "none",
     said_goodbye |-> FALSE, triggers |-> 0]

InitConversation(modes) ==
    /\ \E mode \in modes : conversation_manager = NewConversation(mode)
    /\ round = NoRound

InitComponents ==
    /\ InitFaces(NoFaces)
    /\ InitEngine
    /\ InitStore
    /\ InitConversation({"none"})

InitLatched ==
    [_person_detected |-> FALSE, _recent_person |-> "None",
     _person_is_new |-> FALSE, _last_person_time |-> 0,
     _person_left_time |-> 0, _obstacle_distance |-> 100,
     _touch_detected |-> FALSE, _touch_style |-> "None",
     _last_interaction |-> Epoch, _idle_since |-> Epoch]

\* the threads that take the brain's locks: the loop thread, the voice
\* thread (on_interaction_start / on_interaction_end), the status thread
\* (get_state) and the owner (start)
Threads == {"loop", "voice", "status", "owner"}

\* self._lock = threading.Lock(); self._mood_lock = threading.Lock()
InitLocks ==
    /\ _lock = "free"
    /\ _mood_lock = "free"
    /\ lpc = [t \in Threads |-> 1]

\* AutonomousBrain.__init__ beside a memory store holding mem; m is
\* Mood(), or the mood an earlier run of the brain has left
InitBrainCore(local, has_llm, max_calls_per_minute, min_think_interval, m, mem, offset) ==
    /\ state = "IDLE"
    /\ mood = m
    /\ local_only = local
    /\ llm_callback = has_llm
    /\ rate_limiter =
           IF local
           THEN [max_calls |-> 30, min_interval |-> 5,
                 _call_times |-> <<>>, _last_call |-> 0]
           ELSE [max_calls |-> max_calls_per_minute,
                 min_interval |-> min_think_interval,
                 _call_times |-> <<>>, _last_call |-> 0]
    /\ _observation_queue = <<>>
    /\ _running = FALSE
    /\ spc = "idle"
    /\ InitLocks
    /\ InitMaintainer(mem, offset)
    /\ latched = InitLatched
    /\ now = Epoch
    /\ pc = "none"
    /\ obs = NoObs
    /\ should_think = FALSE
    /\ response = <<>>
    /\ decision = NoDecision
    /\ vpc = "idle"
    /\ ppc = [p \in Producers |-> "idle"]
    /\ pobs = [p \in Producers |-> NoObs]
    /\ gpc = "idle"
    /\ gtimes = <<>>
    /\ interacting = FALSE
    /\ effects = <<>>
    /\ recorded = FALSE
    /\ invocations = <<>>
    /\ nobs = 0
    /\ _history = [s \in {} |-> <<>>]
    /\ outlived = NoThread
    /\ requests = NoRequests
    /\ ninteractions = 0
    /\ ticks = 0
    /\ nerrors = 0

\* the brain beside a store whose other tables are empty
InitBrainWith(local, has_llm, max_calls_per_minute, min_think_interval, m, mem, offset) ==
    /\ InitBrainCore(local, has_llm, max_calls_per_minute, min_think_interval, m, mem, offset)
    /\ InitComponents

\* AutonomousBrain.__init__, with an empty memory store and a maintainer
\* that is not started
InitBrain(local, has_llm, max_calls_per_minute, min_think_interval) ==
    InitBrainWith(local, has_llm, max_calls_per_minute, min_think_interval,
                  DefaultMood, NoMemories, 0)

brain_vars == <<state, mood, rate_limiter, local_only, llm_callback, latched>>
loop_vars == <<pc, obs, should_think, response, decision>>
producer_vars == <<ppc, pobs, nobs, _history>>
voice_vars == <<vpc, ninteractions>>
status_vars == <<gpc, gtimes>>
history_vars == <<interacting, effects, recorded, invocations, nerrors>>
lock_vars == <<_lock, _mood_lock, lpc>>
maintainer_vars == <<memories, tz, mpc, m_running, mtimeout, groups, batch,
                     stats, busy_seen, reasoner_calls, cycles>>
other_vars == <<conversation_manager, round, outlived, requests>>
program_vars_but_requests ==
    <<brain_vars, _observation_queue, _running, spc, now, loop_vars,
      voice_vars, producer_vars, status_vars, history_vars, ticks,
      conversation_manager, round, outlived>>
program_vars == <<brain_vars, _observation_queue, _running, spc, now,
                  loop_vars, voice_vars, producer_vars, status_vars,
                  history_vars, ticks, other_vars>>
face_vars == <<faces, duplicates, additional_seen, seen, nsightings>>
engine_vars == <<engine, chosen, ndecides>>
close_vars == <<_closed, _local, opc, nstore>>
store_vars == <<recalled, tricks, result, _personality, vision_callbacks,
                close_vars>>
component_vars == <<face_vars, engine_vars, store_vars>>
rest_vars == <<lock_vars, maintainer_vars, component_vars, other_vars>>

----------------------------------------------------------------------------
(* The clock *)

Tick(steps, max_time) ==
    /\ \E dt \in steps : now + dt <= max_time /\ now' = now + dt
    /\ UNCHANGED <<brain_vars, _observation_queue, _running, spc, rest_vars, loop_vars, voice_vars,
                   producer_vars, status_vars, history_vars, ticks>>

----------------------------------------------------------------------------
(* AutonomousBrain.start / stop *)

\* start(); this model has one loop thread, so start() is taken when no
\* loop thread is alive
Start ==
    /\ ~_running
    /\ spc = "idle"
    /\ pc \in {"none", "exited"}
    /\ _running' = TRUE
    /\ mood' = IF local_only
               THEN [mood EXCEPT !.boredom = 7000, !.curiosity_level = 5000]
               ELSE mood
    /\ pc' = "loop"
    /\ UNCHANGED <<state, rate_limiter, local_only, llm_callback, latched,
                   _observation_queue, now, obs, should_think, response,
                   decision, spc, rest_vars, voice_vars, producer_vars, status_vars,
                   history_vars, ticks>>

\* stop(): self._running = False; the caller goes on to join the thread
Stop ==
    /\ _running
    /\ spc = "idle"
    /\ _running' = FALSE
    /\ spc' = "join"
    /\ UNCHANGED <<brain_vars, _observation_queue, rest_vars, now, loop_vars, voice_vars,
                   producer_vars, status_vars, history_vars, ticks>>

\* a join that waits for the thread whatever the timeout
JoinWaits(thread_pc, timed_out) == thread_pc = "exited"

\* self._thread.join(timeout=timeout) returns when the thread has ended or
\* when the timeout has passed
JoinReturns(thread_pc, timed_out) == thread_pc = "exited" \/ timed_out

\* stop(): join returns; a warning is logged if the thread is still alive.
\* The loop thread may be as slow as it likes, so the timeout can pass at
\* any position of the loop thread.
StopJoin ==
    /\ spc = "join"
    /\ \E timed_out \in BOOLEAN : JoinReturns(pc, timed_out)
    /\ spc' = "idle"
    /\ UNCHANGED <<brain_vars, _observation_queue, _running, rest_vars, now, loop_vars,
                   voice_vars, producer_vars, status_vars, history_vars, ticks>>

----------------------------------------------------------------------------
(* AutonomousBrain.observe, one producer thread p.  queue.Queue makes      *)
(* put_nowait and get_nowait atomic; the steps between them are not.       *)

\* a queue that takes one item too many
FullOffByOne(q) == Len(q) > QueueMaxSize

Full(q) == Len(q) >= QueueMaxSize

\* obs built and scored (the novelty of the input is replaced by the
\* score), first put_nowait; an exception of the scoring goes to the caller
ObservePut(p, inputs, max_obs) ==
    /\ ppc[p] = "idle"
    /\ nobs < max_obs
    /\ nobs' = nobs + 1
    /\ \E v \in inputs :
         IF NoveltyRaises(v, _history)
         THEN UNCHANGED <<ppc, pobs, _observation_queue, _history>>
         ELSE LET o == [v EXCEPT !.novelty = Novelty(v, _history)]
              IN  /\ _history' = AddObservation(v, _history)
                  /\ IF Full(_observation_queue)
                     THEN /\ ppc' = [ppc EXCEPT ![p] = "drop"]
                          /\ pobs' = [pobs EXCEPT ![p] = o]
                          /\ UNCHANGED _observation_queue
                     ELSE /\ _observation_queue' = Append(_observation_queue, o)
                          /\ UNCHANGED <<ppc, pobs>>
    /\ UNCHANGED <<brain_vars, _running, spc, rest_vars, now, loop_vars, voice_vars, status_vars,
                   history_vars, ticks>>

\* a get that takes the newest item
GetNewest(q) == IF q = <<>> THEN <<>> ELSE SubSeq(q, 1, Len(q) - 1)

\* the queue after get_nowait(), ignoring queue.Empty
GetNowait(q) == IF q = <<>> THEN <<>> ELSE Tail(q)

\* except queue.Full: get_nowait(), ignoring queue.Empty
ObserveDropOldest(p) ==
    /\ ppc[p] = "drop"
    /\ _observation_queue' = GetNowait(_observation_queue)
    /\ ppc' = [ppc EXCEPT ![p] = "reput"]
    /\ UNCHANGED <<brain_vars, _running, spc, rest_vars, now, loop_vars, voice_vars, pobs, nobs,
                   _history, status_vars, history_vars, ticks>>

\* second put_nowait, ignoring queue.Full
ObserveReput(p) ==
    /\ ppc[p] = "reput"
    /\ _observation_queue' =
           IF Full(_observation_queue) THEN _observation_queue
           ELSE Append(_observation_queue, pobs[p])
    /\ ppc' = [ppc EXCEPT ![p] = "idle"]
    /\ pobs' = [pobs EXCEPT ![p] = NoObs]
    /\ UNCHANGED <<brain_vars, _running, spc, rest_vars, now, loop_vars, voice_vars, nobs,
                   _history, status_vars, history_vars, ticks>>

----------------------------------------------------------------------------
(* on_interaction_start / on_interaction_end, the voice thread *)

\* self._lock is free: get_state() holds it while it is inside can_call()
BrainLockFree == gpc = "idle"

\* with self._mood_lock: self.mood.on_interaction()
InteractionStartMood(max_interactions) ==
    /\ vpc = "idle"
    /\ ~interacting
    /\ ninteractions < max_interactions
    /\ ninteractions' = ninteractions + 1
    /\ mood' = OnInteraction(mood)
    /\ vpc' = "start"
    /\ UNCHANGED <<state, rate_limiter, local_only, llm_callback, latched,
                   _observation_queue, _running, spc, rest_vars, now, loop_vars,
                   producer_vars, status_vars, history_vars, ticks>>

\* with self._lock: state = INTERACTING
InteractionStartState ==
    /\ vpc = "start"
    /\ BrainLockFree
    /\ state' = "INTERACTING"
    /\ latched' = [latched EXCEPT !._last_interaction = now]
    /\ vpc' = "idle"
    /\ interacting' = TRUE
    /\ UNCHANGED <<mood, rate_limiter, local_only, llm_callback,
                   _observation_queue, _running, spc, rest_vars, now, loop_vars,
                   ninteractions, producer_vars, status_vars, effects,
                   recorded, invocations, nerrors, ticks>>

InteractionEnd ==
    /\ vpc = "idle"
    /\ interacting
    /\ BrainLockFree
    /\ state' = "IDLE"
    /\ latched' = [latched EXCEPT !._idle_since = now]
    /\ interacting' = FALSE
    /\ UNCHANGED <<mood, rate_limiter, local_only, llm_callback,
                   _observation_queue, _running, spc, rest_vars, now, loop_vars, voice_vars,
                   producer_vars, status_vars, effects, recorded, invocations, nerrors,
                   ticks>>

----------------------------------------------------------------------------
(* _run_loop, the brain loop thread *)

env_vars == <<_running, spc, rest_vars, now, voice_vars, producer_vars, status_vars>>

\* while self._running:
LoopTop(max_ticks) ==
    /\ pc = "loop"
    /\ IF _running
       THEN /\ ticks < max_ticks
            /\ ticks' = ticks + 1
            /\ pc' = "process"
       ELSE /\ pc' = "exited"
            /\ UNCHANGED ticks
    /\ UNCHANGED <<brain_vars, _observation_queue, env_vars, obs, should_think,
                   response, decision, history_vars>>

\* _process_observations: while not self._observation_queue.empty()
ProcessObservations ==
    /\ pc = "process"
    /\ pc' = IF _observation_queue = <<>> THEN "update_mood" ELSE "get"
    /\ UNCHANGED <<brain_vars, _observation_queue, env_vars, obs, should_think,
                   response, decision, history_vars, ticks>>

\* obs = get_nowait(); except queue.Empty: break
GetObservation ==
    /\ pc = "get"
    /\ IF _observation_queue = <<>>
       THEN /\ pc' = "update_mood"
            /\ UNCHANGED <<obs, _observation_queue>>
       ELSE /\ obs' = Head(_observation_queue)
            /\ _observation_queue' = Tail(_observation_queue)
            /\ pc' = "handle_novelty"
    /\ UNCHANGED <<brain_vars, env_vars, should_think, response, decision,
                   history_vars, ticks>>

\* _handle_observation: if obs.novelty > 0.5: mood.on_novel_stimulus
HandleNovelty ==
    /\ pc = "handle_novelty"
    /\ mood' = IF obs.novelty > 5000 THEN OnNovelStimulus(mood, obs.novelty)
               ELSE mood
    /\ pc' = "handle_event"
    /\ UNCHANGED <<state, rate_limiter, local_only, llm_callback, latched,
                   _observation_queue, env_vars, obs, should_think, response,
                   decision, history_vars, ticks>>

\* the latched fields after the observation
Latch(l, o, t) ==
    CASE o.sensor_type = "vision" /\ o.event = "person_entered_view" ->
             [l EXCEPT !._person_detected = TRUE, !._recent_person = "None",
                       !._person_is_new = TRUE, !._last_person_time = t]
      [] o.sensor_type = "vision" /\ o.event = "face_recognized" ->
             [l EXCEPT !._person_detected = TRUE, !._recent_person = o.name,
                       !._person_is_new = (o.novelty > 5000),
                       !._last_person_time = t]
      [] o.sensor_type = "vision" /\ o.event = "unknown_face_detected" ->
             [l EXCEPT !._person_detected = TRUE, !._recent_person = "None",
                       !._person_is_new = TRUE, !._last_person_time = t]
      [] o.sensor_type = "vision" /\ o.event = "person_left_view" ->
             [l EXCEPT !._person_detected = FALSE, !._person_left_time = t]
      [] o.sensor_type = "ultrasonic" ->
             [l EXCEPT !._obstacle_distance = o.dist]
      [] o.sensor_type = "touch" /\ o.text # "" ->
             [l EXCEPT !._touch_detected = TRUE, !._touch_style = o.text]
      [] OTHER -> l

\* _handle_observation, the branch on sensor_type.  obs.value.get raises
\* for a vision value that is no dict; the exception leaves
\* _process_observations and is caught in _run_loop.
HandleEvent ==
    /\ pc = "handle_event"
    /\ IF obs.sensor_type = "vision" /\ ~obs.is_dict
       THEN /\ pc' = "error_sleep"
            /\ nerrors' = nerrors + 1
            /\ UNCHANGED <<state, mood, latched>>
       ELSE /\ latched' = Latch(latched, obs, now)
            /\ UNCHANGED nerrors
            /\ mood' = IF obs.sensor_type = "touch" /\ obs.text # ""
                       THEN [mood EXCEPT !.happiness = Min(One, mood.happiness + 1000)]
                       ELSE mood
            /\ CASE obs.sensor_type = "vision" /\ obs.event = "person_entered_view" ->
                        \* with self._lock: if IDLE: CURIOUS
                        /\ BrainLockFree
                        /\ state' = IF state = "IDLE" THEN "CURIOUS" ELSE state
                        /\ pc' = "process"
                 [] obs.sensor_type = "vision" /\ obs.event = "face_recognized" ->
                        \* if name and self.state == IDLE: read without the lock
                        /\ pc' = IF obs.name # "" /\ state = "IDLE"
                                 THEN "face_curious" ELSE "process"
                        /\ UNCHANGED state
                 [] OTHER ->
                        /\ pc' = "process"
                        /\ UNCHANGED state
    /\ obs' = IF pc' = "face_curious" THEN obs ELSE NoObs
    /\ UNCHANGED <<rate_limiter, local_only, llm_callback, _observation_queue,
                   env_vars, should_think, response, decision, interacting,
                   effects, recorded, invocations, ticks>>

\* face_recognized: with self._lock: self.state = CURIOUS
FaceCurious ==
    /\ pc = "face_curious"
    /\ BrainLockFree
    /\ state' = "CURIOUS"
    /\ pc' = "process"
    /\ obs' = NoObs
    /\ UNCHANGED <<mood, rate_limiter, local_only, llm_callback, latched,
                   _observation_queue, env_vars, should_think, response,
                   decision, history_vars, ticks>>

\* _update_mood: with self._mood_lock: self.mood.decay(0.1)
UpdateMood ==
    /\ pc = "update_mood"
    /\ mood' = Decay(mood)
    /\ pc' = "maybe_think_mood"
    /\ UNCHANGED <<state, rate_limiter, local_only, llm_callback, latched,
                   _observation_queue, env_vars, obs, should_think, response,
                   decision, history_vars, ticks>>

\* _maybe_think: with self._mood_lock: should_think = ...
MaybeThinkMood ==
    /\ pc = "maybe_think_mood"
    /\ should_think' = ShouldThink(mood, DefaultPersonality)
    /\ pc' = "maybe_think"
    /\ UNCHANGED <<brain_vars, _observation_queue, env_vars, obs, response,
                   decision, history_vars, ticks>>

\* a _maybe_think without the rate limit
MayStartThinkingUnlimited(st, think, rl, t) ==
    /\ st # "INTERACTING"
    /\ think

\* _maybe_think, the decision taken under self._lock: TRUE iff the state
\* is to become THINKING
MayStartThinking(st, think, rl, t) ==
    /\ st # "INTERACTING"
    /\ think
    /\ CanCall(rl, t)

\* _maybe_think: with self._lock: ... self.state = THINKING
MaybeThink ==
    /\ pc = "maybe_think"
    /\ BrainLockFree
    /\ rate_limiter' = IF state # "INTERACTING" /\ should_think
                       THEN AfterCanCall(rate_limiter, now) ELSE rate_limiter
    /\ IF MayStartThinking(state, should_think, rate_limiter, now)
       THEN /\ state' = "THINKING"
            /\ pc' = "do_think"
            /\ effects' = <<>>
            /\ recorded' = FALSE
       ELSE /\ pc' = "sleep"
            /\ UNCHANGED <<state, effects, recorded>>
    /\ should_think' = FALSE
    /\ UNCHANGED <<mood, local_only, llm_callback, latched, _observation_queue,
                   env_vars, obs, response, decision, interacting, invocations, nerrors,
                   ticks>>

\* time.sleep(0.1)
Sleep ==
    /\ pc = "sleep"
    /\ pc' = "loop"
    /\ UNCHANGED <<brain_vars, _observation_queue, env_vars, obs, should_think,
                   response, decision, history_vars, ticks>>

\* a loop that gives up after an exception
AfterTickErrorExit == "exited"

\* where _run_loop continues after the except clause: the while test
AfterTickError == "loop"

\* except Exception: logger.error; time.sleep(1.0)
ErrorSleep ==
    /\ pc = "error_sleep"
    /\ pc' = AfterTickError
    /\ obs' = NoObs
    /\ UNCHANGED <<brain_vars, _observation_queue, env_vars, should_think,
                   response, decision, history_vars, ticks>>

----------------------------------------------------------------------------
(* _do_think / _do_think_local, one think cycle *)

\* _do_think up to the try block
DoThink ==
    /\ pc = "do_think"
    /\ IF ~_running \/ (~local_only /\ ~llm_callback)
       THEN /\ BrainLockFree
            /\ state' = "IDLE"
            /\ pc' = "sleep"
       ELSE /\ pc' = IF local_only THEN "local_record" ELSE "build_prompt"
            /\ UNCHANGED state
    /\ UNCHANGED <<mood, rate_limiter, local_only, llm_callback, latched,
                   _observation_queue, env_vars, obs, should_think, response,
                   decision, history_vars, ticks>>

\* prompt = self._build_autonomous_prompt(), which reads the memory store
\* and may raise; if not self._running: return
BuildPromptWith(outcomes) ==
    /\ pc = "build_prompt"
    /\ \E raises \in outcomes :
         pc' = IF raises \/ ~_running THEN "think_finally" ELSE "record_call"
    /\ UNCHANGED <<brain_vars, _observation_queue, env_vars, obs, should_think,
                   response, decision, history_vars, ticks>>

BuildPrompt == BuildPromptWith(BOOLEAN)

\* self.rate_limiter.record_call(); self.llm_callback(prompt) is entered
RecordAndCall ==
    /\ pc = "record_call"
    /\ rate_limiter' = RecordCall(rate_limiter, now)
    /\ recorded' = TRUE
    /\ invocations' = Append(invocations, now)
    /\ pc' = "llm_call"
    /\ UNCHANGED <<state, mood, local_only, llm_callback, latched,
                   _observation_queue, env_vars, obs, should_think, response,
                   decision, interacting, effects, nerrors, ticks>>

\* the reasoner returns text; parse_and_execute parses it
LlmReturn(replies) ==
    /\ pc = "llm_call"
    /\ \E r \in replies :
         /\ response' = r
         /\ decision' = ParseResponse(r)
    /\ pc' = "tools"
    /\ UNCHANGED <<brain_vars, _observation_queue, env_vars, obs, should_think,
                   history_vars, ticks>>

\* the reasoner raises (timeout, transport error, API error)
LlmRaise ==
    /\ pc = "llm_call"
    /\ pc' = "think_finally"
    /\ UNCHANGED <<brain_vars, _observation_queue, env_vars, obs, should_think,
                   response, decision, history_vars, ticks>>

\* _do_think_local: self.rate_limiter.record_call()
LocalRecord ==
    /\ pc = "local_record"
    /\ rate_limiter' = RecordCall(rate_limiter, now)
    /\ recorded' = TRUE
    /\ invocations' = Append(invocations, now)
    /\ pc' = "local_decide"
    /\ UNCHANGED <<state, mood, local_only, llm_callback, latched,
                   _observation_queue, env_vars, obs, should_think, response,
                   decision, interacting, effects, nerrors, ticks>>

\* the contexts are built and behavior_engine.decide() returns a Decision,
\* or one of them raises
LocalDecideWith(decisions, outcomes) ==
    /\ pc = "local_decide"
    /\ \E raises \in outcomes :
         IF raises
         THEN /\ pc' = "think_finally"
              /\ UNCHANGED decision
         ELSE /\ \E d \in decisions : decision' = d
              /\ pc' = "tools"
    /\ UNCHANGED <<brain_vars, _observation_queue, env_vars, obs, should_think,
                   response, history_vars, ticks>>

LocalDecide(decisions) == LocalDecideWith(decisions, BOOLEAN)

\* ToolExecutor.execute_tool(name): the calls it makes, in order.  An
\* unknown name has no handler; do_trick passes the trick's actions to the
\* action callback when the trick is known; an exception of a handler is
\* turned into a failed ToolResult.
ExecuteTool(name, trick_known) ==
    CASE name = "do_trick" ->
             IF trick_known THEN <<"tool", "trick">> ELSE <<"tool">>
      [] name \in {"remember", "recall", "set_goal", "complete_goal"} ->
             <<"tool">>
      [] OTHER -> <<>>

\* an order in which speech comes before the actions
NextPhaseSpeechFirst(phase) ==
    CASE phase = "tools" -> "speech"
      [] phase = "speech" -> "actions"
      [] OTHER -> "mood_reset"

\* the order of the statements of a think cycle after the backend returned
NextPhase(phase) ==
    CASE phase = "tools" -> "actions"
      [] phase = "actions" -> "speech"
      [] OTHER -> "mood_reset"

\* the tool loop of parse_and_execute and of _execute_decision (which skips
\* a tool without a name), one tool per step
ExecTools ==
    /\ pc = "tools"
    /\ IF decision.tools = <<>>
       THEN /\ pc' = NextPhase(pc)
            /\ UNCHANGED <<decision, effects>>
       ELSE /\ \E trick_known \in BOOLEAN :
                 effects' = effects \o
                     (IF Head(decision.tools) = "" THEN <<>>
                      ELSE ExecuteTool(Head(decision.tools), trick_known))
            /\ decision' = [decision EXCEPT !.tools = Tail(decision.tools)]
            /\ UNCHANGED pc
    /\ UNCHANGED <<brain_vars, _observation_queue, env_vars, obs, should_think,
                   response, interacting, recorded, invocations, nerrors, ticks>>

\* if actions and self.action_callback: self.action_callback(actions)
ExecActionsWith(outcomes) ==
    /\ pc = "actions"
    /\ IF decision.actions # <<>>
       THEN /\ effects' = Append(effects, "actions")
            /\ \E raises \in outcomes :
                 pc' = IF raises THEN "think_finally" ELSE NextPhase(pc)
       ELSE /\ pc' = NextPhase(pc)
            /\ UNCHANGED effects
    /\ UNCHANGED <<brain_vars, _observation_queue, env_vars, obs, should_think,
                   response, decision, interacting, recorded, invocations, nerrors,
                   ticks>>

ExecActions == ExecActionsWith(BOOLEAN)

\* if speech and self.speak_callback: self.speak_callback(speech)
SpeakWith(outcomes) ==
    /\ pc = "speech"
    /\ IF decision.speech # <<>>
       THEN /\ effects' = Append(effects, "speech")
            /\ \E raises \in outcomes :
                 pc' = IF raises THEN "think_finally" ELSE NextPhase(pc)
       ELSE /\ pc' = NextPhase(pc)
            /\ UNCHANGED effects
    /\ UNCHANGED <<brain_vars, _observation_queue, env_vars, obs, should_think,
                   response, decision, interacting, recorded, invocations, nerrors,
                   ticks>>

Speak == SpeakWith(BOOLEAN)

\* the mood after a think cycle of the remote backend
RemoteMoodReset(m) == [m EXCEPT !.curiosity_level = 3000, !.boredom = 0]

\* the mood after a think cycle of the local backend
LocalMoodReset(m) ==
    [m EXCEPT !.curiosity_level = Max(3000, m.curiosity_level - 2000),
              !.boredom = Max(0, m.boredom - 3000)]

\* the post-think updates (the local backend also resets the touch flags)
MoodReset ==
    /\ pc = "mood_reset"
    /\ mood' = IF local_only THEN LocalMoodReset(mood) ELSE RemoteMoodReset(mood)
    /\ latched' = IF local_only
                  THEN [latched EXCEPT !._touch_detected = FALSE,
                                       !._touch_style = "None"]
                  ELSE latched
    /\ pc' = "think_finally"
    /\ UNCHANGED <<state, rate_limiter, local_only, llm_callback,
                   _observation_queue, env_vars, obs, should_think, response,
                   decision, history_vars, ticks>>

\* a finally block that restores nothing
StateKept(st) == st

\* the state a think cycle leaves behind
StateAfterThink(st) == "IDLE"

\* finally: with self._lock: self.state = IDLE
ThinkFinally ==
    /\ pc = "think_finally"
    /\ BrainLockFree
    /\ state' = StateAfterThink(state)
    /\ pc' = "sleep"
    /\ response' = <<>>
    /\ decision' = NoDecision
    /\ effects' = <<>>
    /\ recorded' = FALSE
    /\ UNCHANGED <<mood, rate_limiter, local_only, llm_callback, latched,
                   _observation_queue, env_vars, obs, should_think,
                   interacting, invocations, nerrors, ticks>>

----------------------------------------------------------------------------
(* get_state, the status thread.  It calls rate_limiter.can_call() under   *)
(* self._lock; record_call() runs without that lock, so it can run between *)
(* the moment can_call() has built the filtered list and the moment it     *)
(* stores it.                                                              *)

\* can_call(): the interval has passed, the list of recent calls is built
GetStateFilter ==
    /\ gpc = "idle"
    /\ IntervalPassed(rate_limiter, now)
    /\ gtimes' = RecentCalls(rate_limiter, now)
    /\ gpc' = "store"
    /\ UNCHANGED <<brain_vars, _observation_queue, _running, spc, rest_vars, now, loop_vars,
                   voice_vars, producer_vars, history_vars, ticks>>

\* can_call(): self._call_times = <the list built>
GetStateStore ==
    /\ gpc = "store"
    /\ rate_limiter' = [rate_limiter EXCEPT !._call_times = gtimes]
    /\ gpc' = "idle"
    /\ gtimes' = <<>>
    /\ UNCHANGED <<state, mood, local_only, llm_callback, latched,
                   _observation_queue, _running, spc, rest_vars, now, loop_vars, voice_vars,
                   producer_vars, history_vars, ticks>>

----------------------------------------------------------------------------------------------------------------------------------------
(* The behaviour engine inside the local think cycle *)

\* _do_think_local: the context is built from the latched fields, the mood
\* is copied, and behavior_engine.decide() returns
EngineDecide(goals, max_decides) ==
    /\ ndecides < max_decides
    /\ ndecides' = ndecides + 1
    /\ \E goal \in goals :
       \E r \in EvaluateTree(engine, mood, DefaultPersonality,
                             BuildObservationContext(latched, now, goal), now) :
          /\ engine' = r.engine
          /\ chosen' = r.chosen
    /\ UNCHANGED <<program_vars, lock_vars, maintainer_vars, face_vars,
                   store_vars>>

\* between two think cycles the loop handles observations and the mood
\* changes
Perceive(latches, moods) ==
    /\ latched' \in latches
    /\ mood' \in moods
    /\ UNCHANGED <<state, rate_limiter, local_only, llm_callback,
                   _observation_queue, _running, spc, now, loop_vars,
                   voice_vars, producer_vars, status_vars, history_vars, ticks,
                   rest_vars>>

----------------
(* The brain with its voice thread, producers and owner *)

BrainInputs == {VisionObs("face_recognized", "Joe", 0)}

FullReply == <<JsonLine("{...}", TRUE, <<"hi">>, <<"wag tail">>, <<"remember">>)>>

BrainReplies == {FullReply}

BrainDecisions ==
    {[speech |-> <<"Woof">>, actions |-> <<"wag tail">>, tools |-> <<"remember">>]}

Init ==
    \/ InitBrain(FALSE, TRUE, 5, 30)
    \/ InitBrain(TRUE, FALSE, 5, 30)

LoopStep(max_ticks) ==
    \/ LoopTop(max_ticks)
    \/ ProcessObservations
    \/ GetObservation
    \/ HandleNovelty
    \/ HandleEvent
    \/ FaceCurious
    \/ UpdateMood
    \/ MaybeThinkMood
    \/ MaybeThink
    \/ Sleep

ThinkStep(replies, decisions) ==
    \/ DoThink
    \/ BuildPrompt
    \/ RecordAndCall
    \/ LlmReturn(replies)
    \/ LlmRaise
    \/ LocalRecord
    \/ LocalDecide(decisions)
    \/ ExecTools
    \/ ExecActions
    \/ Speak
    \/ MoodReset
    \/ ThinkFinally

Next ==
    \/ Start
    \/ Stop
    \/ StopJoin
    \/ Tick({30}, Epoch + 30)
    \/ \E p \in Producers : ObservePut(p, BrainInputs, MaxObs)
    \/ InteractionStartMood(MaxInteractions)
    \/ InteractionStartState
    \/ InteractionEnd
    \/ LoopStep(MaxTicks)
    \/ ThinkStep(BrainReplies, BrainDecisions)

Spec == Init /\ [][Next]_vars

----------------------------------------------------------------------------
(* The rate limiter over time: the loop, the clock and the status thread *)

InitRate ==
    \/ InitBrain(FALSE, TRUE, 1, 30)
    \/ InitBrain(TRUE, FALSE, 5, 30)

NextRate ==
    \/ Start
    \/ Tick({10, 30}, Epoch + RateHorizon)
    \/ \E p \in Producers : ObservePut(p, BrainInputs, RateObs)
    \/ LoopStep(RateTicks)
    \/ ThinkStep(BrainReplies, BrainDecisions)
    \/ GetStateFilter
    \/ GetStateStore

SpecRate == InitRate /\ [][NextRate]_vars

----------------------------------------------------------------------------
(* One think cycle over the replies and decisions a backend can produce *)

\* the adapter's reply for stop_reason = "refusal" (anthropic_llm.py)
RefusalReply == <<JsonLine("{...}", TRUE, <<>>, <<>>, <<>>)>>
\* a reply cut off by max_tokens
TruncatedReply ==
    <<JsonLine("{\"speech\": \"Hello\", \"actions\": [\"wag tail\"", FALSE,
               <<"Hello">>, <<"wag tail">>, <<>>)>>
TrickReply ==
    <<JsonLine("{...}", TRUE, <<>>, <<"sit">>, <<"do_trick", "remember">>)>>
FencedReply ==
    <<FenceLine, JsonLine("{...}", TRUE, <<"hi">>, <<>>, <<"nosuchtool">>),
      FenceLine>>
LegacyReply ==
    <<TextLine("Woof"), ActionsLine(<<"wag tail">>), ToolLine("remember")>>
PlainReply == <<TextLine("I would rather rest.")>>

DecisionReplies ==
    {FullReply, RefusalReply, TruncatedReply, TrickReply, FencedReply,
     LegacyReply, PlainReply}

DecisionDecisions ==
    {[speech |-> <<"Woof">>, actions |-> <<"wag tail">>,
      tools |-> <<"do_trick", "remember">>],
     [speech |-> <<>>, actions |-> <<"sit">>, tools |-> <<"", "complete_goal">>],
     [speech |-> <<>>, actions |-> <<>>, tools |-> <<>>]}

InitDecision ==
    \/ InitBrain(FALSE, TRUE, 5, 30)
    \/ InitBrain(TRUE, FALSE, 5, 30)

NextDecision ==
    \/ Start
    \/ \E p \in Producers : ObservePut(p, BrainInputs, MaxObs)
    \/ LoopStep(DecisionTicks)
    \/ ThinkStep(DecisionReplies, DecisionDecisions)

SpecDecision == InitDecision /\ [][NextDecision]_vars

----------------------------------------------------------------------------
(* Shutdown: the owner stops and restarts the brain while it thinks *)

NextStop ==
    \/ Start
    \/ Stop
    \/ StopJoin
    \/ \E p \in Producers : ObservePut(p, BrainInputs, MaxObs)
    \/ LoopStep(StopTicks)
    \/ ThinkStep(BrainReplies, BrainDecisions)

\* the steps of the loop thread of this specification
StopLoopThread == LoopStep(StopTicks) \/ ThinkStep(BrainReplies, BrainDecisions)

\* the loop thread is scheduled again and again, and a call of the backend
\* returns or raises
SpecStop == InitDecision /\ [][NextStop]_vars /\ WF_vars(StopLoopThread)

----------------------------------------------------------------------------
(* The observation queue near its capacity.  Before start(), observe() was *)
(* called QueueMaxSize - 1 times with the same ultrasonic reading; the     *)
(* NoveltyDetector scores the first two 1.0 and the others 0.0.            *)

FillerDistance == 50

FillerQueue ==
    [i \in 1 .. (QueueMaxSize - 1) |->
        UltrasonicObs(FillerDistance, IF i <= 2 THEN One ELSE 0)]

\* the first reading made the history, the others were appended to it
FillerHistory ==
    [s \in {"ultrasonic"} |-> [i \in 1 .. (QueueMaxSize - 2) |-> FillerDistance]]

QueueInputs == {BadVisionObs, VisionObs("face_recognized", "Joe", 0)}

InitQueue ==
    /\ _observation_queue = FillerQueue
    /\ state = "IDLE"
    /\ mood = DefaultMood
    /\ local_only \in BOOLEAN
    /\ llm_callback = ~local_only
    /\ rate_limiter = [max_calls |-> IF local_only THEN 30 ELSE 5,
                       min_interval |-> IF local_only THEN 5 ELSE 30,
                       _call_times |-> <<>>, _last_call |-> 0]
    /\ _running = FALSE
    /\ spc = "idle"
    /\ InitLocks
    /\ InitMaintainer(NoMemories, 0)
    /\ InitComponents
    /\ latched = InitLatched
    /\ now = Epoch
    /\ pc = "none"
    /\ obs = NoObs
    /\ should_think = FALSE
    /\ response = <<>>
    /\ decision = NoDecision
    /\ vpc = "idle"
    /\ ppc = [p \in Producers |-> "idle"]
    /\ pobs = [p \in Producers |-> NoObs]
    /\ gpc = "idle"
    /\ gtimes = <<>>
    /\ interacting = FALSE
    /\ effects = <<>>
    /\ recorded = FALSE
    /\ invocations = <<>>
    /\ nobs = QueueMaxSize - 1
    /\ _history = FillerHistory
    /\ outlived = NoThread
    /\ requests = NoRequests
    /\ ninteractions = 0
    /\ ticks = 0
    /\ nerrors = 0

\* the owner may call stop() while the queue is worked on; the return of
\* its join is followed in SpecStop
NextQueue ==
    \/ Start
    \/ Stop
    \/ \E p \in Producers : ObservePut(p, QueueInputs, QueueObs)
    \/ \E p \in Producers : ObserveDropOldest(p)
    \/ \E p \in Producers : ObserveReput(p)
    \/ LoopStep(QueueTicks)
    \/ ErrorSleep
    \/ ThinkStep(BrainReplies, BrainDecisions)

SpecQueue == InitQueue /\ [][NextQueue]_vars

\* the steps of the loop thread; the thread is scheduled again and again,
\* and a call of the backend returns or raises
LoopThread ==
    LoopStep(QueueTicks) \/ ErrorSleep \/ ThinkStep(BrainReplies, BrainDecisions)

SpecQueueFair == SpecQueue /\ WF_vars(LoopThread)

----------------------------------------------------------------------------
(* The mood at its bounds.  The brain starts with Mood(), or with the mood *)
(* of a brain that ran for a long time: tiredness only grows, boredom      *)
(* grows by 0.0005 a tick while no think cycle resets it (the reasoner     *)
(* raises, or the state is INTERACTING), happiness only grows.             *)

MoodObs == 2
MoodTicks == 2
MoodInteractions == 2

AgedMood ==
    [happiness |-> One, excitement |-> 3000, tiredness |-> One,
     boredom |-> One, curiosity_level |-> 3000]

MoodInputs == {TouchObs("pet", 0), VisionObs("face_recognized", "Joe", 0)}

InitMood ==
    \E m \in {DefaultMood, AgedMood} :
        \/ InitBrainWith(FALSE, TRUE, 5, 30, m, NoMemories, 0)
        \/ InitBrainWith(TRUE, FALSE, 5, 30, m, NoMemories, 0)

NextMood ==
    \/ Start
    \/ \E p \in Producers : ObservePut(p, MoodInputs, MoodObs)
    \/ InteractionStartMood(MoodInteractions)
    \/ InteractionStartState
    \/ InteractionEnd
    \/ LoopStep(MoodTicks)
    \/ ThinkStep(BrainReplies, BrainDecisions)

SpecMood == InitMood /\ [][NextMood]_vars

----------------------------------------------------------------------------
(* The lock discipline.  Each thread is the sequence of lock operations   *)
(* and callbacks its code performs, in program order; a region under an   *)
(* `if` may be passed over.  threading.Lock is not reentrant: an acquire  *)
(* waits until the lock is free, whoever holds it.                        *)

Acquire(l) == [op |-> "acquire", lock |-> l, cond |-> FALSE]
Release(l) == [op |-> "release", lock |-> l, cond |-> FALSE]

\* with self.<l>: ...
With(l) == <<Acquire(l), Release(l)>>

\* if ...: with self.<l>: ...
IfWith(l) == <<[op |-> "acquire", lock |-> l, cond |-> TRUE], Release(l)>>

\* a call of a reasoner, tool or effector callback; every one of them is
\* inside _do_think, which a tick may not reach
Callback(c) == <<[op |-> "callback", lock |-> c, cond |-> TRUE],
                 [op |-> "return", lock |-> c, cond |-> FALSE]>>

\* start(): if self.local_only: with self._mood_lock
StartLocks == IfWith("_mood_lock")

\* on_interaction_start(): with self._mood_lock, then with self._lock
OnInteractionStartLocks == With("_mood_lock") \o With("_lock")

\* on_interaction_end(): with self._lock
OnInteractionEndLocks == With("_lock")

\* a get_state that reads the mood while it holds self._lock
GetStateLocksNested ==
    <<Acquire("_lock"), Acquire("_mood_lock"), Release("_mood_lock"),
      Release("_lock")>>

\* get_state(): with self._mood_lock, then with self._lock
GetStateLocks == With("_mood_lock") \o With("_lock")

\* _handle_observation(): the novelty update, the state change of a vision
\* event, the happiness update of a touch
HandleObservationLocks ==
    IfWith("_mood_lock") \o IfWith("_lock") \o IfWith("_mood_lock")

\* _update_mood()
UpdateMoodLocks == With("_mood_lock")

\* _maybe_think(): the mood check, then the state check
MaybeThinkLocks == With("_mood_lock") \o With("_lock")

\* _do_think(): the two early returns, _get_observation_summary inside
\* _build_autonomous_prompt, the reasoner call, parse_and_execute, the
\* effectors, the mood reset, the finally block
DoThinkLocks ==
    IfWith("_lock") \o IfWith("_lock") \o IfWith("_mood_lock")
    \o Callback("llm_callback") \o Callback("tools")
    \o Callback("action_callback") \o Callback("speak_callback")
    \o IfWith("_mood_lock") \o IfWith("_lock")

\* _do_think_local(): the mood copy, behavior_engine.decide,
\* _execute_decision, the mood reset, the finally block
DoThinkLocalLocks ==
    IfWith("_mood_lock") \o Callback("behavior_engine")
    \o Callback("tools") \o Callback("action_callback")
    \o Callback("speak_callback")
    \o IfWith("_mood_lock") \o IfWith("_lock")

\* one iteration of _run_loop
LoopLocks ==
    HandleObservationLocks \o UpdateMoodLocks \o MaybeThinkLocks
    \o (IF local_only THEN DoThinkLocalLocks ELSE DoThinkLocks)

LockProgram(t) ==
    CASE t = "loop" -> LoopLocks
      [] t = "voice" -> OnInteractionStartLocks \o OnInteractionEndLocks
      [] t = "status" -> GetStateLocks
      [] t = "owner" -> StartLocks

LockOp(t) == LockProgram(t)[lpc[t]]

\* every thread repeats its sequence
LockAdvance(t, n) ==
    lpc' = [lpc EXCEPT ![t] = IF lpc[t] + n > Len(LockProgram(t))
                              THEN 1 ELSE lpc[t] + n]

Holder(l) == IF l = "_lock" THEN _lock ELSE _mood_lock

\* self.<l>.__enter__: waits while the lock is held
LockAcquire(t) ==
    /\ LockOp(t).op = "acquire"
    /\ Holder(LockOp(t).lock) = "free"
    /\ IF LockOp(t).lock = "_lock"
       THEN _lock' = t /\ UNCHANGED _mood_lock
       ELSE _mood_lock' = t /\ UNCHANGED _lock
    /\ LockAdvance(t, 1)
    /\ UNCHANGED <<program_vars, maintainer_vars,
                   component_vars>>

\* self.<l>.__exit__
LockRelease(t) ==
    /\ LockOp(t).op = "release"
    /\ IF LockOp(t).lock = "_lock"
       THEN _lock' = "free" /\ UNCHANGED _mood_lock
       ELSE _mood_lock' = "free" /\ UNCHANGED _lock
    /\ LockAdvance(t, 1)
    /\ UNCHANGED <<program_vars, maintainer_vars,
                   component_vars>>

\* the condition of an `if` is false: the region or the call is passed over
LockSkip(t) ==
    /\ LockOp(t).cond
    /\ LockAdvance(t, 2)
    /\ UNCHANGED <<_lock, _mood_lock, program_vars, maintainer_vars,
                   component_vars>>

\* a callback is entered, or returns or raises
RunCallback(t) ==
    /\ LockOp(t).op \in {"callback", "return"}
    /\ LockAdvance(t, 1)
    /\ UNCHANGED <<_lock, _mood_lock, program_vars, maintainer_vars,
                   component_vars>>

InitLockSpec ==
    \/ InitBrain(FALSE, TRUE, 5, 30)
    \/ InitBrain(TRUE, FALSE, 5, 30)

NextLocks ==
    \E t \in Threads :
        \/ LockAcquire(t)
        \/ LockRelease(t)
        \/ LockSkip(t)
        \/ RunCallback(t)

SpecLocks == InitLockSpec /\ [][NextLocks]_vars

----------------------------------------------------------------------------
(* MemoryMaintainer, the maintenance thread *)

\* is_busy(): brain.state == AutonomousState.INTERACTING, read without a lock
IsBusy == state = "INTERACTING"

NoStats ==
    [decayed_count |-> 0, consolidated_count |-> 0, pruned_count |-> 0,
     merged_faces_count |-> 0]

\* start()
MaintainerStart ==
    /\ mpc = "none"
    /\ ~m_running
    /\ m_running' = TRUE
    /\ mpc' = "wait"
    /\ mtimeout' = InitialDelaySeconds
    /\ UNCHANGED <<program_vars, lock_vars, component_vars, memories, tz, groups, batch,
                   stats, busy_seen, reasoner_calls, cycles>>

\* stop(): self._running = False; self._stop_event.set()
MaintainerStop ==
    /\ m_running
    /\ m_running' = FALSE
    /\ UNCHANGED <<program_vars, lock_vars, component_vars, memories, tz, mpc, mtimeout,
                   groups, batch, stats, busy_seen, reasoner_calls, cycles>>

\* self._stop_event.wait(timeout=...) returns: True once stop() has set the
\* event, False when the timeout has passed
WaitReturns ==
    /\ mpc = "wait"
    /\ mpc' = IF m_running THEN "loop" ELSE "exited"
    /\ UNCHANGED <<program_vars, lock_vars, component_vars, memories, tz, m_running,
                   mtimeout, groups, batch, stats, busy_seen, reasoner_calls,
                   cycles>>

\* a loop that waits the full interval after a busy check
LoopCheckFullInterval(max_cycles) ==
    /\ mpc = "loop"
    /\ cycles < max_cycles
    /\ cycles' = cycles + 1
    /\ IF ~m_running
       THEN /\ mpc' = "exited"
            /\ UNCHANGED <<mtimeout, busy_seen, stats>>
       ELSE IF IsBusy
       THEN /\ busy_seen' = TRUE
            /\ mpc' = "wait"
            /\ mtimeout' = IntervalSeconds
            /\ UNCHANGED stats
       ELSE /\ busy_seen' = FALSE
            /\ mpc' = "decay"
            /\ stats' = NoStats
            /\ UNCHANGED mtimeout
    /\ UNCHANGED <<program_vars, lock_vars, component_vars, memories, tz, m_running, groups,
                   batch, reasoner_calls>>

\* while self._running: if self.is_busy(): wait(busy_retry_seconds); continue
LoopCheck(max_cycles) ==
    /\ mpc = "loop"
    /\ cycles < max_cycles
    /\ cycles' = cycles + 1
    /\ IF ~m_running
       THEN /\ mpc' = "exited"
            /\ UNCHANGED <<mtimeout, busy_seen, stats>>
       ELSE IF IsBusy
       THEN /\ busy_seen' = TRUE
            /\ mpc' = "wait"
            /\ mtimeout' = BusyRetrySeconds
            /\ UNCHANGED stats
       ELSE /\ busy_seen' = FALSE
            /\ mpc' = "decay"
            /\ stats' = NoStats
            /\ UNCHANGED mtimeout
    /\ UNCHANGED <<program_vars, lock_vars, component_vars, memories, tz, m_running, groups,
                   batch, reasoner_calls>>

\* _calculate_days_stale: (datetime.now() - last_access).days, the local
\* clock against a UTC timestamp
DaysStale(age) == (age + tz) \div 24

\* _decay_importance: decay = decay_rate_per_day * days_beyond_protection
DecayOf(age) == DecayRatePerDay * Max(0, DaysStale(age) - AccessProtectionDays)

\* _decay_importance: the updates list
DecayUpdates(mem) ==
    [i \in {j \in GetStaleMemories(mem, AccessProtectionDays, StaleMaxImportance) :
                DecayOf(mem[j].age) >= DecayTolerance} |->
        Max(0, mem[i].importance - DecayOf(mem[i].age))]

\* stats.decayed_count = self._decay_importance()
DecayImportance ==
    /\ mpc = "decay"
    /\ memories' = BulkUpdateImportance(memories, DecayUpdates(memories))
    /\ stats' = [stats EXCEPT
                    !.decayed_count = Cardinality(DOMAIN DecayUpdates(memories))]
    /\ mpc' = "consolidate"
    /\ UNCHANGED <<program_vars, lock_vars, component_vars, tz, m_running, mtimeout, groups,
                   batch, busy_seen, reasoner_calls, cycles>>

\* get_memories_by_subject_grouped(): the rows of each subject as they are
\* at the time of the query
GroupedBySubject(mem) ==
    LET Present(subject) == GroupIds(mem, subject) # {}
        present == SelectSeq(SubjectOrder, Present)
    IN  [k \in DOMAIN present |->
            [subject |-> present[k],
             rows |-> [i \in GroupIds(mem, present[k]) |-> mem[i].importance]]]

\* if not self.is_busy(): stats.consolidated_count = self._consolidate_memories()
ConsolidateCheck ==
    /\ mpc = "consolidate"
    /\ IF IsBusy
       THEN /\ busy_seen' = TRUE
            /\ mpc' = "prune"
            /\ UNCHANGED groups
       ELSE /\ groups' = GroupedBySubject(memories)
            /\ mpc' = "subjects"
            /\ UNCHANGED busy_seen
    /\ UNCHANGED <<program_vars, lock_vars, component_vars, memories, tz, m_running,
                   mtimeout, batch, stats, reasoner_calls, cycles>>

\* sorted(memories, key=importance, reverse=True)[:batch_size]: the ids a
\* batch can hold; rows of equal importance come in the order of the query
Batches(rows, batch_size) ==
    IF Cardinality(DOMAIN rows) <= batch_size THEN {DOMAIN rows}
    ELSE {b \in SUBSET DOMAIN rows :
             /\ Cardinality(b) = batch_size
             /\ \A i \in b : \A k \in DOMAIN rows \ b : rows[i] >= rows[k]}

\* the orders of the ids of b by decreasing importance
RECURSIVE OrdersByImportance(_, _)
OrdersByImportance(rows, b) ==
    IF b = {} THEN {<<>>}
    ELSE UNION {{<<i>> \o rest : rest \in OrdersByImportance(rows, b \ {i})} :
                   i \in {i \in b : \A j \in b : rows[i] >= rows[j]}}

\* the list `memories` of a batch: ORDER BY importance DESC, rows of equal
\* importance in any order
BatchOrders(rows, b) == OrdersByImportance(rows, b)

\* one of these orders
RECURSIVE AnOrderByImportance(_, _)
AnOrderByImportance(rows, b) ==
    IF b = {} THEN <<>>
    ELSE LET i == CHOOSE i \in b : \A j \in b : rows[i] >= rows[j]
         IN  <<i>> \o AnOrderByImportance(rows, b \ {i})

\* _consolidate_memories: one iteration of the loop over the subjects, up
\* to the call of the reasoner
NextSubject(batch_size) ==
    /\ mpc = "subjects"
    /\ IF groups = <<>>
       THEN /\ mpc' = "prune"
            /\ UNCHANGED <<groups, batch, busy_seen, reasoner_calls>>
       ELSE IF Cardinality(DOMAIN Head(groups).rows) < 2
       THEN /\ groups' = Tail(groups)
            /\ UNCHANGED <<mpc, batch, busy_seen, reasoner_calls>>
       ELSE IF IsBusy
       THEN /\ busy_seen' = TRUE
            /\ mpc' = "prune"
            /\ UNCHANGED <<groups, batch, reasoner_calls>>
       ELSE IF ~m_running
       THEN /\ mpc' = "prune"
            /\ UNCHANGED <<groups, batch, busy_seen, reasoner_calls>>
       ELSE /\ \E b \in Batches(Head(groups).rows, batch_size) :
                 batch' = [subject |-> Head(groups).subject, valid_ids |-> b,
                           importance |-> [i \in b |-> Head(groups).rows[i]]]
            /\ groups' = Tail(groups)
            /\ reasoner_calls' = reasoner_calls + 1
            /\ mpc' = "reasoner"
            /\ UNCHANGED busy_seen
    /\ UNCHANGED <<program_vars, lock_vars, component_vars, memories, tz, m_running,
                   mtimeout, stats, cycles>>

\* a key that the reply does not have
NoKey == 0 - 2000000

SeqRange(seq) == {seq[i] : i \in DOMAIN seq}

\* a consolidation that trusts the ids of the reply
UnvalidatedDeleteIds(delete_ids, valid_ids) == delete_ids

\* validated_delete_ids = [id for id in delete_ids if id in valid_ids]
ValidatedDeleteIds(delete_ids, valid_ids) ==
    LET Valid(id) == id \in valid_ids
    IN  SelectSeq(delete_ids, Valid)

\* one entry of result["updates"]
ApplyUpdate(mem, update, valid_ids, deleted_ids) ==
    IF update.id \notin valid_ids \/ update.id \in deleted_ids THEN mem
    ELSE LET with_content ==
                 IF update.content # "" 
                 THEN UpdateMemoryContent(mem, update.id, update.content)
                 ELSE mem
         IN  IF update.importance = NoKey \/ ClampRaises(update.importance)
             THEN with_content
             ELSE UpdateMemoryImportance(with_content, update.id,
                                         update.importance)

\* a count that takes in the entries naming a deleted id
UpdateAffectedOfDeleted(update, valid_ids, deleted_ids) ==
    IF \/ update.id \notin valid_ids
       \/ (update.importance # NoKey /\ ClampRaises(update.importance))
    THEN 0 ELSE 1

\* 1 if the entry adds to `affected`: it is valid and nothing raised
UpdateAffected(update, valid_ids, deleted_ids) ==
    IF \/ update.id \notin valid_ids
       \/ update.id \in deleted_ids
       \/ (update.importance # NoKey /\ ClampRaises(update.importance))
    THEN 0 ELSE 1

RECURSIVE ApplyUpdates(_, _, _, _)
\* for update in updates: ...
ApplyUpdates(mem, updates, valid_ids, deleted_ids) ==
    IF updates = <<>> THEN mem
    ELSE ApplyUpdates(ApplyUpdate(mem, Head(updates), valid_ids, deleted_ids),
                      Tail(updates), valid_ids, deleted_ids)

RECURSIVE UpdatesAffected(_, _, _)
UpdatesAffected(updates, valid_ids, deleted_ids) ==
    IF updates = <<>> THEN 0
    ELSE UpdateAffected(Head(updates), valid_ids, deleted_ids)
         + UpdatesAffected(Tail(updates), valid_ids, deleted_ids)

\* validated_source_ids = [id for id in source_ids
\*                         if id in valid_ids and id not in deleted_ids]
ValidatedSourceIds(source_ids, valid_ids, deleted_ids) ==
    LET Valid(id) == id \in valid_ids /\ id \notin deleted_ids
    IN  SelectSeq(source_ids, Valid)

\* the merged record is created: the reply has one, with content and source
\* ids, a valid source id is left, and remember() does not raise
MergeApplies(merged, valid_ids, deleted_ids) ==
    /\ merged.content # ""
    /\ ValidatedSourceIds(merged.source_ids, valid_ids, deleted_ids) # <<>>
    /\ ~(merged.importance # NoKey /\ ClampRaises(merged.importance))

\* source_mem = next((m for m in memories if m.id in validated_source_ids),
\* None): the id of the first memory of the batch that is a valid source
SourceMem(batch_memories, validated_source_ids) ==
    LET IsSource(id) == id \in SeqRange(validated_source_ids)
    IN  Head(SelectSeq(batch_memories, IsSource))

\* remember(category=source_mem.category, ...), then
\* bulk_delete_memories(validated_source_ids); source_mem is the Memory
\* read with the batch, and no operation changes a category
ApplyMerged(mem, merged, subject, batch_memories, deleted_ids) ==
    LET valid_ids == SeqRange(batch_memories)
        validated_source_ids ==
            ValidatedSourceIds(merged.source_ids, valid_ids, deleted_ids)
    IN  IF MergeApplies(merged, valid_ids, deleted_ids)
        THEN LET source_mem == mem[SourceMem(batch_memories, validated_source_ids)]
                 created ==
                     Remember(mem, subject, merged.content,
                              IF merged.importance = NoKey THEN DefaultImportance
                              ELSE merged.importance)
             IN  BulkDeleteMemories(
                     [created EXCEPT ![NewId(mem)] =
                         InCategory(@, source_mem.category)],
                     SeqRange(validated_source_ids))
        ELSE mem

\* _consolidate_subject_memories after json.loads: deletions, updates, merge
ApplyReply(mem, reply, subject, batch_memories) ==
    LET valid_ids == SeqRange(batch_memories)
        deleted_ids == SeqRange(ValidatedDeleteIds(reply.delete_ids, valid_ids))
    IN  ApplyMerged(
            ApplyUpdates(BulkDeleteMemories(mem, deleted_ids), reply.updates,
                         valid_ids, deleted_ids),
            reply.merged, subject, batch_memories, deleted_ids)

\* the value _consolidate_subject_memories returns
Affected(reply, valid_ids) ==
    LET validated == ValidatedDeleteIds(reply.delete_ids, valid_ids)
        deleted_ids == SeqRange(validated)
    IN  Len(validated)
        + UpdatesAffected(reply.updates, valid_ids, deleted_ids)
        + IF MergeApplies(reply.merged, valid_ids, deleted_ids)
          THEN Len(ValidatedSourceIds(reply.merged.source_ids, valid_ids,
                                      deleted_ids))
          ELSE 0

\* the list `memories` of the batch as the query returned it; its order is
\* read only where a merged memory takes the category of a source
MemoriesRead(reply) ==
    IF reply.merged.content = ""
    THEN {AnOrderByImportance(batch.importance, batch.valid_ids)}
    ELSE BatchOrders(batch.importance, batch.valid_ids)

\* self.llm.prompt(prompt) returns a reply, or a text that is not JSON, or
\* raises; then the reply is applied
ReasonerReturns(replies) ==
    /\ mpc = "reasoner"
    /\ \E reply \in replies :
          IF reply.kind = "json"
          THEN /\ \E batch_memories \in MemoriesRead(reply) :
                    memories' = ApplyReply(memories, reply, batch.subject,
                                           batch_memories)
               /\ stats' = [stats EXCEPT !.consolidated_count =
                                @ + Affected(reply, batch.valid_ids)]
          ELSE UNCHANGED <<memories, stats>>
    /\ mpc' = "subjects"
    /\ UNCHANGED <<program_vars, lock_vars, component_vars, tz, m_running, mtimeout, groups,
                   batch, busy_seen, reasoner_calls, cycles>>

\* a pruning that rounds the count up
PruneCountCeil(memory_count, max_memories) ==
    ((memory_count - max_memories) * 12 + 9) \div 10

\* prune_count = int(excess * 1.2)
PruneCount(memory_count, max_memories) ==
    ((memory_count - max_memories) * 12) \div 10

\* stats.pruned_count = self._prune_low_importance()
PruneLowImportance(max_memories) ==
    /\ mpc = "prune"
    /\ IF GetStats(memories) <= max_memories
       THEN /\ stats' = [stats EXCEPT !.pruned_count = 0]
            /\ UNCHANGED memories
       ELSE \E ids \in GetPruneCandidates(memories, MinImportance,
                           PruneCount(GetStats(memories), max_memories)) :
               /\ memories' = BulkDeleteMemories(memories, ids)
               /\ stats' = [stats EXCEPT !.pruned_count = Cardinality(ids)]
    /\ mpc' = "dedup"
    /\ UNCHANGED <<program_vars, lock_vars, component_vars, tz, m_running, mtimeout, groups,
                   batch, busy_seen, reasoner_calls, cycles>>

\* _deduplicate_faces up to the loop: duplicates = get_duplicate_faces();
\* with no duplicates the cycle is over, _last_stats is stored and the
\* thread waits for the next interval
DeduplicateFaces ==
    /\ mpc = "dedup"
    /\ \E all \in GetAllFaces(faces) :
          duplicates' = GetDuplicateFaces(all, FaceDistanceThreshold)
    /\ stats' = [stats EXCEPT !.merged_faces_count = 0]
    /\ IF duplicates' = <<>>
       THEN mpc' = "wait" /\ mtimeout' = IntervalSeconds
       ELSE mpc' = "merge_select" /\ UNCHANGED mtimeout
    /\ UNCHANGED <<program_vars, lock_vars, memories, tz, m_running, groups,
                   batch, busy_seen, reasoner_calls, cycles, faces,
                   additional_seen, seen, nsightings,
                   engine_vars, store_vars>>

\* keep = group[0]; delete_ids = [f.id for f in group[1:]]
Keep(group) == Head(SortByTimesSeen(group))
DeleteIds(group) ==
    LET sorted == SortByTimesSeen(group)
    IN  {sorted[k].id : k \in 2 .. Len(sorted)}

\* merge_face_entries(keep.id, delete_ids), the SELECT: it runs before the
\* UPDATE opens the transaction
MergeSelect ==
    /\ mpc = "merge_select"
    /\ additional_seen' = SelectSum(faces, DeleteIds(Head(duplicates)))
    /\ mpc' = "merge_write"
    /\ UNCHANGED <<program_vars, lock_vars, memories, tz, m_running, mtimeout,
                   groups, batch, stats, busy_seen, reasoner_calls, cycles,
                   faces, duplicates, seen, nsightings,
                   engine_vars, store_vars>>

\* merge_face_entries, the UPDATE, the DELETE and the commit; then
\* merged_count += len(delete_ids) and the next group, or the end of the
\* cycle
MergeWrite ==
    /\ mpc = "merge_write"
    /\ faces' = MergeFaceEntries(faces, Keep(Head(duplicates)).id,
                                 DeleteIds(Head(duplicates)), additional_seen)
    /\ stats' = [stats EXCEPT !.merged_faces_count =
                     @ + Cardinality(DeleteIds(Head(duplicates)))]
    /\ duplicates' = Tail(duplicates)
    /\ additional_seen' = 0
    /\ IF duplicates' = <<>>
       THEN mpc' = "wait" /\ mtimeout' = IntervalSeconds
       ELSE mpc' = "merge_select" /\ UNCHANGED mtimeout
    /\ UNCHANGED <<program_vars, lock_vars, memories, tz, m_running, groups,
                   batch, busy_seen, reasoner_calls, cycles, seen, nsightings,
                   engine_vars, store_vars>>

\* FaceMemory: record_face_seen(face_id) on the vision thread
RecordFaceSeen(max_sightings) ==
    /\ nsightings < max_sightings
    /\ \E face_id \in DOMAIN faces :
          /\ faces' = RecordFaceSeenRow(faces, face_id)
          /\ seen' = [seen EXCEPT ![faces[face_id].name] = @ + 1]
    /\ nsightings' = nsightings + 1
    /\ UNCHANGED <<program_vars, lock_vars, maintainer_vars, duplicates,
                   additional_seen,
                   engine_vars, store_vars>>

\* recall(query, limit) on the thread of its caller: the SELECT, which runs
\* outside a transaction
RecallSelect(queries, limits, max_recalls) ==
    /\ recalled.pc # "selected"
    /\ recalled.calls < max_recalls
    /\ \E query \in queries, limit \in limits :
          \E ids \in RankedRows(memories, query, limit) :
              recalled' = [pc |-> "selected", ids |-> ids,
                           calls |-> recalled.calls + 1]
    /\ UNCHANGED <<program_vars, lock_vars, maintainer_vars, face_vars,
                   engine_vars, tricks, result, _personality,
                   vision_callbacks, close_vars>>

\* recall: the batched UPDATE (skipped when no row was selected), the commit
\* and the return
RecallUpdate ==
    /\ recalled.pc = "selected"
    /\ memories' = IF recalled.ids = {} THEN memories
                   ELSE TouchRows(memories, recalled.ids)
    /\ recalled' = [recalled EXCEPT !.pc = "done"]
    /\ UNCHANGED <<program_vars, lock_vars, face_vars, engine_vars, tricks, result, _personality, vision_callbacks, close_vars, tz, mpc, m_running, mtimeout,
                   groups, batch, stats, busy_seen, reasoner_calls, cycles>>

\* learn_trick(name, trigger_phrase, actions)
LearnTrickCall(names, action_lists, max_calls) ==
    /\ result.calls < max_calls
    /\ \E name \in names, actions \in action_lists :
          IF LearnTrickRejects(actions) # "None"
          THEN /\ result' = Returned(FALSE, LearnTrickRejects(actions))
               /\ UNCHANGED tricks
          ELSE /\ tricks' = StoreTrick(tricks, name, "do it", actions)
               /\ result' = Returned(TRUE, "Learned trick")
    /\ UNCHANGED <<program_vars, lock_vars, maintainer_vars, face_vars,
                   engine_vars, recalled, _personality, vision_callbacks,
                   close_vars>>

\* delete_trick(name)
DeleteTrickCall(names, max_calls) ==
    /\ result.calls < max_calls
    /\ \E name \in names : tricks' = DeleteTrick(tricks, name)
    /\ result' = Returned(TRUE, "None")
    /\ UNCHANGED <<program_vars, lock_vars, maintainer_vars, face_vars,
                   engine_vars, recalled, _personality, vision_callbacks,
                   close_vars>>

\* ToolExecutor.execute_tool(tool_name, params)
ExecuteToolCall(calls, max_calls) ==
    /\ result.calls < max_calls
    /\ \E call \in calls, callback_raises \in BOOLEAN :
          LET o == ExecuteToolOutcome(call, vision_callbacks, callback_raises,
                                      memories, tricks, _personality)
          IN  /\ result' = [success |-> o.success, message |-> o.message,
                            raised |-> o.raised, category |-> o.category,
                            call |-> call, calls |-> result.calls + 1]
              /\ memories' = o.memories
              /\ tricks' = o.tricks
              /\ _personality' = o.personality
    /\ UNCHANGED <<program_vars, lock_vars, face_vars, engine_vars, recalled, vision_callbacks, close_vars, tz, mpc,
                   m_running, mtimeout, groups, batch, stats, busy_seen,
                   reasoner_calls, cycles>>

\* a store operation (here remember()) on thread th enters _get_conn: the
\* test of _closed under _close_lock
OperationStart(th, max_operations) ==
    /\ opc[th].pc = "idle"
    /\ nstore.operations < max_operations
    /\ nstore' = [nstore EXCEPT !.operations = @ + 1]
    /\ opc' = [opc EXCEPT ![th] =
                  IF GetConnRaises(_closed)
                  THEN [pc |-> "idle", after_close |-> nstore.closes > 0,
                        outcome |-> "RuntimeError"]
                  ELSE [pc |-> "checked", after_close |-> nstore.closes > 0,
                        outcome |-> "None"]]
    /\ UNCHANGED <<program_vars, lock_vars, maintainer_vars, face_vars,
                   engine_vars, recalled, tricks, result, _personality,
                   vision_callbacks, _closed, _local>>

\* _get_conn: the thread's connection is created if there is none
OperationConnect(th) ==
    /\ opc[th].pc = "checked"
    /\ _local' = [_local EXCEPT ![th] = "open"]
    /\ opc' = [opc EXCEPT ![th].pc = "connected"]
    /\ UNCHANGED <<program_vars, lock_vars, maintainer_vars, face_vars,
                   engine_vars, recalled, tricks, result, _personality,
                   vision_callbacks, _closed, nstore>>

\* the operation writes through its connection, commits and returns
OperationRun(th) ==
    /\ opc[th].pc = "connected"
    /\ memories' = Remember(memories, "Joe", "said", DefaultImportance)
    /\ opc' = [opc EXCEPT ![th].pc = "idle", ![th].outcome = "written"]
    /\ UNCHANGED <<program_vars, lock_vars, face_vars, engine_vars, recalled, tricks, result, _personality,
                   vision_callbacks, _closed, _local, nstore, tz, mpc,
                   m_running, mtimeout, groups, batch, stats, busy_seen,
                   reasoner_calls, cycles>>

\* close() on thread th, under _close_lock: it returns when the store is
\* closed already, and sets _closed otherwise
CloseStart(th, max_closes) ==
    /\ opc[th].pc = "idle"
    /\ nstore.closes + Cardinality({o \in StoreThreads : opc[o].pc = "closing"})
          < max_closes
    /\ IF _closed
       THEN /\ opc' = [opc EXCEPT ![th].outcome = "returned"]
            /\ nstore' = [nstore EXCEPT !.closes = @ + 1]
            /\ UNCHANGED _closed
       ELSE /\ _closed' = TRUE
            /\ opc' = [opc EXCEPT ![th].pc = "closing"]
            /\ UNCHANGED nstore
    /\ UNCHANGED <<program_vars, lock_vars, maintainer_vars, face_vars,
                   engine_vars, recalled, tricks, result, _personality,
                   vision_callbacks, _local>>

\* close(): the connection of the calling thread is closed and forgotten,
\* and close() returns
CloseFinish(th) ==
    /\ opc[th].pc = "closing"
    /\ _local' = [_local EXCEPT ![th] = "None"]
    /\ opc' = [opc EXCEPT ![th].pc = "idle", ![th].outcome = "returned"]
    /\ nstore' = [nstore EXCEPT !.closes = @ + 1]
    /\ UNCHANGED <<program_vars, lock_vars, maintainer_vars, face_vars,
                   engine_vars, recalled, tricks, result, _personality,
                   vision_callbacks, _closed>>

\* a remember() of some other thread (the remember tool)
RememberCall(subjects, importances, max_store) ==
    /\ GetStats(memories) < max_store
    /\ \E subject \in subjects, importance \in importances :
          IF ClampRaises(importance) THEN UNCHANGED memories
          ELSE memories' = Remember(memories, subject, "said", importance)
    /\ UNCHANGED <<program_vars, lock_vars, component_vars, tz, mpc, m_running, mtimeout,
                   groups, batch, stats, busy_seen, reasoner_calls, cycles>>

MaintainerStep(max_cycles, batch_size, max_memories, replies) ==
    \/ WaitReturns
    \/ LoopCheck(max_cycles)
    \/ DecayImportance
    \/ ConsolidateCheck
    \/ NextSubject(batch_size)
    \/ ReasonerReturns(replies)
    \/ PruneLowImportance(max_memories)
    \/ DeduplicateFaces

----------------------------------------------------------------------------
(* Consolidation: one maintenance cycle over a store with two subjects,    *)
(* a reasoner that answers with ids inside and outside the batch and with  *)
(* importances inside and outside [0, 1].                                  *)

ConsolidateCycles == 1
BatchSize == 3
DefaultMaxMemories == 500

\* Joe's 13 is the least important of four and falls outside a batch of
\* three; 13 and 77 are stale
ConsolidateStore ==
    [i \in {10, 11, 12, 13, 77, 999} |->
        CASE i = 10 -> InCategory(Row("Joe", "a", 600, 0, 2), "person")
          [] i = 11 -> Row("Joe", "b", 500, 0, 1)
          [] i = 12 -> InCategory(Row("Joe", "c", 400, 0, 0), "preference")
          [] i = 13 -> InCategory(Row("Joe", "d", 100, 720, 0), "experience")
          [] i = 77 -> InCategory(Row("Ann", "e", 300, 200, 0), "person")
          [] i = 999 -> Row("Ann", "f", 950, 240, 3)]

Update(id, content, importance) ==
    [id |-> id, content |-> content, importance |-> importance]

Merged(content, importance, source_ids) ==
    [content |-> content, importance |-> importance, source_ids |-> source_ids]

NoMerged == Merged("", NoKey, <<>>)

JsonReply(delete_ids, updates, merged) ==
    [kind |-> "json", delete_ids |-> delete_ids, updates |-> updates,
     merged |-> merged]

\* a text json.loads rejects; an exception of llm.prompt; JSON that is not
\* an object, whose result.get raises into _consolidate_memories, which
\* logs the error and goes on with the next subject
OtherReplies ==
    {[kind |-> k, delete_ids |-> <<>>, updates |-> <<>>, merged |-> NoMerged] :
        k \in {"invalid", "raise", "not_an_object"}}

ConsolidateReplies ==
    {JsonReply(d, u, m) :
        d \in {<<>>, <<10, 999>>, <<13>>},
        u \in {<<>>, <<Update(11, "merged", NoKey)>>,
               <<Update(10, "", 1500), Update(77, "x", 0)>>,
               <<Update(11, "merged", NotANumber)>>,
               <<Update(12, "", 0 - 500), Update(10, "y", NoKey)>>},
        m \in {NoMerged, Merged("joined", 2000, <<12, 77>>),
               Merged("joined", NoKey, <<999, 13, 10>>),
               Merged("joined", 700, <<12, 10, 13>>),
               Merged("joined", NotANumber, <<12>>)}}
    \cup OtherReplies

WrittenImportances == {0 - 500, 300, 1500, NotANumber}

\* bulk_update_importance(updates) called with one pair by a user of the
\* store
BulkUpdateCall(importances, max_writes) ==
    /\ cycles + reasoner_calls < max_writes
    /\ \E i \in DOMAIN memories, importance \in importances \ {NotANumber} :
          memories' = BulkUpdateImportance(memories, (i :> importance))
    /\ UNCHANGED <<program_vars, lock_vars, component_vars, tz, mpc, m_running, mtimeout,
                   groups, batch, stats, busy_seen, reasoner_calls, cycles>>

InitConsolidate ==
    InitBrainWith(FALSE, TRUE, 5, 30, DefaultMood, ConsolidateStore, 0)

NextConsolidate ==
    \/ MaintainerStart
    \/ MaintainerStep(ConsolidateCycles, BatchSize, DefaultMaxMemories,
                      ConsolidateReplies)

SpecConsolidate == InitConsolidate /\ [][NextConsolidate]_vars

----------------------------------------------------------------------------
(* The writers of importance: remember, the maintainer's decay and         *)
(* consolidation, and a direct caller of bulk_update_importance.           *)

WriteCycles == 1
BulkWrites == 1
RememberWrites == 1

WriteReplies ==
    {JsonReply(<<>>, <<Update(10, "", 1500), Update(77, "x", 0)>>,
               Merged("joined", 2000, <<12, 77>>)),
     JsonReply(<<13>>, <<Update(12, "", 0 - 500)>>, NoMerged)}
    \cup OtherReplies

NextWrites ==
    \/ MaintainerStart
    \/ MaintainerStep(WriteCycles, BatchSize, DefaultMaxMemories, WriteReplies)
    \/ RememberCall({"Joe"}, WrittenImportances,
                    Cardinality(DOMAIN ConsolidateStore) + RememberWrites)
    \/ BulkUpdateCall({0 - 500, 1500}, BulkWrites)

SpecWrites == InitConsolidate /\ [][NextWrites]_vars

----------------------------------------------------------------------------
(* Decay and pruning: one maintenance cycle over stores that hold more    *)
(* than max_memories rows, with a reasoner that proposes no change.       *)

PruneCycles == 1
PruneMaxMemories == 3
PruneExcess == 2
DefaultBatchSize == 20

\* the local UTC offsets of the robot, in hours
TzOffsets == {0, 10}

\* the rows a store is made of: importance 0.1 and 30 days old (unread, and
\* read once), 0.1 and 7 days 20 hours old, 0.0, 0.205 and 10 days old,
\* 0.2 and 4 days old, 0.95
PruneRows ==
    <<Row("Joe", "a", 100, 720, 0), Row("Joe", "a", 100, 720, 1),
      Row("Joe", "a", 100, 188, 0), Row("Joe", "a", 0, 720, 0),
      Row("Joe", "a", 205, 240, 0), Row("Joe", "a", 200, 100, 0),
      Row("Joe", "a", 950, 720, 0)>>

\* the stores of n rows, one for each choice of rows
PruneStores(n) ==
    {[i \in 1..n |-> PruneRows[kinds[i]]] :
        kinds \in {k \in [1..n -> DOMAIN PruneRows] :
                      \A i \in 1..(n - 1) : k[i] <= k[i + 1]}}

PruneReplies == {JsonReply(<<>>, <<>>, NoMerged)}

InitPrune ==
    \E n \in (PruneMaxMemories + 1)..(PruneMaxMemories + PruneExcess) :
        \E mem \in PruneStores(n), offset \in TzOffsets :
            InitBrainWith(FALSE, TRUE, 5, 30, DefaultMood, mem, offset)

NextPrune ==
    \/ MaintainerStart
    \/ MaintainerStep(PruneCycles, DefaultBatchSize, PruneMaxMemories,
                      PruneReplies)

SpecPrune == InitPrune /\ [][NextPrune]_vars

----------------------------------------------------------------------------------------------------------------------------------------
(* recall() beside the maintenance cycle: the caller's thread and the      *)
(* maintainer's thread each work on a connection of their own.             *)

RecallCalls == 1
RecallMaxMemories == 3

RecallRows ==
    <<Row("Joe", "pizza", 100, 720, 0), Row("Joe", "ball", 950, 24, 2),
      Row("Ann", "pizza", 500, 100, 0), Row("Ann", "ball", 100, 720, 1)>>

\* a store one row over max_memories
RecallStore ==
    [i \in 1..(RecallMaxMemories + 1) |->
        RecallRows[((i - 1) % Len(RecallRows)) + 1]]

RecallQueries == {"pizza", "Joe", "walk"}
RecallLimits == {1, 5}

InitRecall == InitBrainWith(FALSE, TRUE, 5, 30, DefaultMood, RecallStore, 0)

NextRecall ==
    \/ MaintainerStart
    \/ MaintainerStep(PruneCycles, DefaultBatchSize, RecallMaxMemories,
                      PruneReplies)
    \/ RecallSelect(RecallQueries, RecallLimits, RecallCalls)
    \/ RecallUpdate

SpecRecall == InitRecall /\ [][NextRecall]_vars

----------------------------------------------------------------------------
(* The tricks table: learn_trick and delete_trick with action lists of    *)
(* every kind.                                                             *)

TrickCalls == 3

Repeat(a, n) == [i \in 1..n |-> a]

TrickNames == {"Spin", "bow"}

TrickActionLists ==
    {<<"sit">>, <<"SIT", "wag tail">>, <<"head down">>, <<"doze off">>,
     <<"sit", "fly">>, Repeat("sit", MaxActionsPerTrick),
     Repeat("sit", MaxActionsPerTrick + 1)}

InitTricks == InitBrain(FALSE, TRUE, 5, 30)

NextTricks ==
    \/ LearnTrickCall(TrickNames, TrickActionLists, TrickCalls)
    \/ DeleteTrickCall(TrickNames, TrickCalls)

SpecTricks == InitTricks /\ [][NextTricks]_vars

----------------------------------------------------------------------------
(* The tool executor: tool calls as a reasoner can write them, with and    *)
(* without the vision callbacks registered.                                *)

MaxToolCalls == 2

ToolParams ==
    {NoParams,
     [category |-> "person", subject |-> "Joe", content |-> "likes pizza"],
     [category |-> "gossip", subject |-> "Joe", content |-> "likes pizza"],
     [subject |-> "Joe", content |-> "likes pizza",
      importance |-> NotANumber],
     [name |-> "bow", trigger |-> "take a bow", actions |-> <<"sit", "nod">>],
     [name |-> "bow", trigger |-> "take a bow", actions |-> <<"sit", "fly">>],
     [trait |-> "energy", value |-> 9000],
     [trait |-> "courage", value |-> 9000],
     [trait |-> "energy", value |-> NotANumber],
     [name |-> "kitchen"], [name |-> "attic"]}

ToolCalls ==
    {ToolCall(name, params) :
        name \in FollowedTools \cup {"Explore", "fly", "<5>"},
        params \in ToolParams}

InitTools ==
    /\ InitBrainCore(FALSE, TRUE, 5, 30, DefaultMood, NoMemories, 0)
    /\ InitFaces(NoFaces)
    /\ InitEngine
    /\ \E callbacks \in {{}, VisionTools \cup NavigationTools} :
          InitStoreWith(callbacks)
    /\ InitConversation({"none"})

NextTools == ExecuteToolCall(ToolCalls, MaxToolCalls)

SpecTools == InitTools /\ [][NextTools]_vars

----------------------------------------------------------------------------
(* Closing the store: operations and close() calls of two threads.         *)

StoreOperations == 4
StoreCloses == 2

InitClose == InitBrain(FALSE, TRUE, 5, 30)

NextClose ==
    \E th \in StoreThreads :
        \/ OperationStart(th, StoreOperations)
        \/ OperationConnect(th)
        \/ OperationRun(th)
        \/ CloseStart(th, StoreCloses)
        \/ CloseFinish(th)

SpecClose == InitClose /\ [][NextClose]_vars

----------------------------------------------------------------------------
(* Face deduplication: one maintenance cycle over a faces table with       *)
(* duplicates, while the vision thread records sightings.                  *)

FaceCycles == 1
FaceSightings == 1

\* two close faces of Joe and one of Ann at the same encoding; a chain of
\* three faces of Joe of which the outer two are apart; a face whose
\* encoding cannot be decoded; faces with equal times_seen
FaceStores ==
    {(1 :> FaceRow("Joe", 10, 5) @@ 2 :> FaceRow("Joe", 12, 3)
          @@ 3 :> FaceRow("Ann", 10, 4)),
     (1 :> FaceRow("Joe", 10, 2) @@ 2 :> FaceRow("Joe", 13, 4)
          @@ 3 :> FaceRow("Joe", 16, 1)),
     (1 :> FaceRow("Joe", 10, 2) @@ 2 :> FaceRow("Joe", BadEncoding, 7)
          @@ 3 :> FaceRow("Joe", 11, 2) @@ 4 :> FaceRow("Ann", 30, 1)
          @@ 5 :> FaceRow("Ann", 31, 6))}

InitFaceSpec ==
    /\ InitBrainCore(FALSE, TRUE, 5, 30, DefaultMood, NoMemories, 0)
    /\ \E f \in FaceStores : InitFaces(f)
    /\ InitEngine
    /\ InitStore
    /\ InitConversation({"none"})

\* the steps of the maintenance thread; the reasoner is not called, since
\* there are no memories to consolidate
NextFaces ==
    \/ MaintainerStart
    \/ WaitReturns
    \/ LoopCheck(FaceCycles)
    \/ DecayImportance
    \/ ConsolidateCheck
    \/ NextSubject(DefaultBatchSize)
    \/ PruneLowImportance(DefaultMaxMemories)
    \/ DeduplicateFaces
    \/ MergeSelect
    \/ MergeWrite
    \/ RecordFaceSeen(FaceSightings)

SpecFaces == InitFaceSpec /\ [][NextFaces]_vars

----------------------------------------------------------------------------
(* The events of the vision thread: the loop handles one observation of a *)
(* person.                                                                 *)

EventObs == 1
EventTicks == 1

EventInputs ==
    {VisionObs("person_entered_view", "", 0),
     VisionObs("face_recognized", "Joe", 0),
     VisionObs("face_recognized", "", 0),
     VisionObs("unknown_face_detected", "", 0)}

NextEvents ==
    \/ Start
    \/ \E p \in Producers : ObservePut(p, EventInputs, EventObs)
    \/ LoopStep(EventTicks)
    \/ ThinkStep(BrainReplies, BrainDecisions)

SpecEvents == InitDecision /\ [][NextEvents]_vars

----------------------------------------------------------------------------
(* The behaviour engine over time: the local backend decides again and    *)
(* again while people come and go, obstacles appear and the clock runs.    *)

EngineDecides == 2
EngineTime == 60

Latched(person, name, is_new, left_time, dist, touch) ==
    [InitLatched EXCEPT !._person_detected = person, !._recent_person = name,
                        !._person_is_new = is_new,
                        !._person_left_time = left_time,
                        !._obstacle_distance = dist,
                        !._touch_detected = (touch # "None"),
                        !._touch_style = touch]

EngineLatches ==
    {Latched(FALSE, "None", FALSE, 0, 8, "None"),
     Latched(FALSE, "None", FALSE, 0, 12, "None"),
     Latched(FALSE, "None", FALSE, 0, 100, "None"),
     Latched(FALSE, "None", FALSE, 0, 100, "PRESS"),
     Latched(TRUE, "Joe", TRUE, 0, 8, "None"),
     Latched(TRUE, "Joe", FALSE, Epoch, 100, "PRESS"),
     Latched(TRUE, "Ann", TRUE, 0, 100, "None"),
     Latched(TRUE, "None", TRUE, 0, 100, "None")}

ExcitedMood == [DefaultMood EXCEPT !.excitement = 8000, !.happiness = 8000]

EngineMoods == {DefaultMood, ExcitedMood, AgedMood}

EngineGoals == {"None", "find the ball"}

InitEngineSpec ==
    InitBrainWith(TRUE, FALSE, 5, 30, DefaultMood, NoMemories, 0)

NextEngine ==
    \/ Tick({30}, Epoch + EngineTime)
    \/ Perceive(EngineLatches, EngineMoods)
    \/ EngineDecide(EngineGoals, EngineDecides)

SpecEngine == InitEngineSpec /\ [][NextEngine]_vars

----------------
(* The maintainer beside the voice thread: interactions start and end     *)
(* while maintenance cycles run.                                          *)

MaintainCycles == 2
MaintainInteractions == 2

MaintainStore ==
    [i \in 1..4 |-> Row(IF i <= 2 THEN "Joe" ELSE "Ann", "a", 500, 0, 0)]

MaintainReplies ==
    {JsonReply(<<>>, <<>>, NoMerged)} \cup OtherReplies

InitMaintain ==
    InitBrainWith(FALSE, TRUE, 5, 30, DefaultMood, MaintainStore, 0)

NextMaintain ==
    \/ MaintainerStart
    \/ MaintainerStop
    \/ MaintainerStep(MaintainCycles, BatchSize, DefaultMaxMemories,
                      MaintainReplies)
    \/ InteractionStartMood(MaintainInteractions)
    \/ InteractionStartState
    \/ InteractionEnd

SpecMaintain == InitMaintain /\ [][NextMaintain]_vars

----------------------------------------------------------------------------
(* Claims about the brain and the voice thread *)

\* the loop thread is inside _do_think / _do_think_local
InThinkCycle ==
    pc \in {"do_think", "build_prompt", "record_call", "llm_call",
            "local_record", "local_decide", "tools", "actions", "speech",
            "mood_reset", "think_finally"}

\* C1: between on_interaction_start() and the next on_interaction_end()
\* the brain never begins a think cycle: the state never becomes THINKING
\* and no reasoner or behaviour-tree invocation starts.
C1_NoThinkDuringInteraction ==
    [][interacting =>
          /\ ~(state # "THINKING" /\ state' = "THINKING")
          /\ invocations' = invocations]_vars

\* C2: from the return of on_interaction_start() to the call of
\* on_interaction_end() the state is INTERACTING.
C2_InteractingUntilEnd == interacting => state = "INTERACTING"

\* C8: a think cycle that began leaves the state IDLE when it ends, whatever
\* path it took (reply, exception, shutdown), and the state is THINKING only
\* while the loop thread is inside the cycle.
C8_ThinkEndsIdle ==
    /\ [](state = "THINKING" => InThinkCycle)
    /\ [][(InThinkCycle /\ ~InThinkCycle') => state' = "IDLE"]_vars

\* a cycle that invoked its backend has ended and the brain is IDLE
C8_Witness == invocations # <<>> /\ pc = "sleep" /\ state = "IDLE"

----------------------------------------------------------------------------
(* Claims about the rate limiter *)

\* C3: the state goes from IDLE or CURIOUS to THINKING only at a moment
\* when RateLimiter.can_call() is true.
C3_ThinkingOnlyIfCanCall ==
    [][(state # "THINKING" /\ state' = "THINKING") =>
          /\ state \in {"IDLE", "CURIOUS"}
          /\ CanCall(rate_limiter, now)]_vars

\* a second think cycle has begun: the limiter allowed it after a call
C3_Witness == state = "THINKING" /\ pc = "do_think" /\ invocations # <<>>

\* the invocations of the backend within the minute that ends with the i-th
InWindow(i) ==
    {j \in DOMAIN invocations :
        /\ invocations[j] > invocations[i] - WindowSeconds
        /\ invocations[j] <= invocations[i]}

\* C4: at most max_calls invocations of the backend in any 60 s window,
\* and consecutive invocations at least min_interval apart.
C4_RateLimited ==
    \A i \in DOMAIN invocations :
        /\ Cardinality(InWindow(i)) <= rate_limiter.max_calls
        /\ i > 1 => invocations[i] - invocations[i - 1] >= rate_limiter.min_interval

\* the loop thread is past the call of its backend
Invoked ==
    pc \in {"llm_call", "local_decide", "tools", "actions", "speech",
            "mood_reset"}

\* C5 as stated: every think cycle calls record_call() before the state
\* leaves THINKING.
C5_RecordedBeforeLeaving ==
    [][(state = "THINKING" /\ state' # "THINKING") => recorded]_vars

\* C5: record_call() runs immediately before the backend is invoked, so a
\* cycle that invoked its backend has recorded the call, and can_call() is
\* false until min_interval after the last invocation.
C5_RecordedBeforeInvocation ==
    /\ Invoked => recorded
    /\ invocations # <<>> =>
          /\ rate_limiter._last_call = invocations[Len(invocations)]
          /\ now - invocations[Len(invocations)] < rate_limiter.min_interval
                => ~CanCall(rate_limiter, now)

\* the backend is being invoked and the call is recorded
C5_Witness ==
    /\ pc = "llm_call" /\ recorded
    /\ ~CanCall(rate_limiter, now)

----------------------------------------------------------------------------
(* Claims about one think cycle *)

Rank(e) == CASE e \in {"tool", "trick"} -> 0
             [] e = "actions" -> 1
             [] OTHER -> 2

Ordered ==
    \A i, j \in DOMAIN effects : i < j => Rank(effects[i]) <= Rank(effects[j])

\* C6 as stated: tools, then the action effector, then speech, and the
\* action effector is not called while the tools run.
C6_NoActionDuringTools ==
    /\ Ordered
    /\ \A i \in DOMAIN effects : effects[i] # "trick"

\* C6: every tool handler runs before the decision's actions are passed to
\* the action effector, and these before speech; a do_trick handler itself
\* passes the trick's actions to the action effector while the tools run.
C6_ToolsActionsSpeech ==
    /\ Ordered
    /\ \A i \in DOMAIN effects :
          effects[i] = "trick" => i > 1 /\ effects[i - 1] = "tool"
    /\ Cardinality({i \in DOMAIN effects : effects[i] = "actions"}) <= 1
    /\ Cardinality({i \in DOMAIN effects : effects[i] = "speech"}) <= 1

\* a cycle ran a do_trick tool, another tool, the actions and the speech
C6_Witness ==
    /\ pc = "mood_reset"
    /\ effects = <<"tool", "trick", "tool", "actions", "speech">>

\* the reply starts with "{" and json.loads fails on it
Unparseable(r) ==
    LET stripped == StripFences(r)
    IN  stripped # <<>> /\ Head(stripped).k = "json" /\ ~Head(stripped).valid

\* C7: after a reply that yields no decision (cut-off JSON) no effector is
\* called.
C7_NoDecisionNoEffect ==
    (response # <<>> /\ Unparseable(response)) => effects = <<>>

----------------------------------------------------------------------------
(* Claims about the loop and the queue *)

\* C9 as stated: an observation leaves the queue only when the loop takes
\* it for processing.
C9_OnlyTheLoopTakes ==
    [][Len(_observation_queue') < Len(_observation_queue) =>
          pc = "get" /\ pc' = "handle_novelty"]_vars

\* C9: the loop thread ends only when running is false; an exception of a
\* tick is caught, leaves the queue as it is and leads back to the loop
\* test; an observation leaves the queue only when the loop takes it for
\* processing or when observe() drops the oldest one of a full queue; and
\* while the brain runs (and the modelled ticks last) a queue that holds
\* observations leads to the loop taking one.
C9_LoopSurvivesErrors ==
    /\ [](_observation_queue # <<>> /\ pc \notin {"none", "exited"} =>
              <>(\/ pc = "handle_novelty"
                 \/ ~_running
                 \/ ticks = QueueTicks /\ pc = "loop"))
    /\ [][(pc # "exited" /\ pc' = "exited") => (pc = "loop" /\ ~_running)]_vars
    /\ [][(pc # "error_sleep" /\ pc' = "error_sleep") =>
              _observation_queue' = _observation_queue]_vars
    /\ [][pc = "error_sleep" => pc' \in {"error_sleep", "loop"}]_vars
    /\ [][Len(_observation_queue') < Len(_observation_queue) =>
              \/ pc = "get" /\ pc' = "handle_novelty"
                    /\ obs' = Head(_observation_queue)
              \/ \E p \in Producers : ppc[p] = "drop" /\ ppc'[p] = "reput"]_vars

\* after an exception of an earlier tick the loop has taken an observation
C9_Witness ==
    /\ nerrors > 0 /\ _running
    /\ pc = "handle_novelty" /\ obs.event = "face_recognized"

\* C10: the queue never holds more than 100 observations.
C10_QueueBounded == Len(_observation_queue) <= QueueMaxSize

\* the queue is full and a producer is about to drop the oldest observation
C10_Witness ==
    /\ Len(_observation_queue) = QueueMaxSize
    /\ \E p \in Producers : ppc[p] = "drop"

\* C11: observe() never waits: a producer inside it always has its next
\* step.  On a full queue it removes exactly the oldest observation and
\* keeps the order of the others, which leaves room; the second put appends
\* the new observation as the newest, and discards it only if the queue is
\* full again at that moment (another thread refilled it after the drop).
C11_DropOldest ==
    /\ [](\A p \in Producers :
             /\ ppc[p] = "drop" => ENABLED ObserveDropOldest(p)
             /\ ppc[p] = "reput" => ENABLED ObserveReput(p))
    /\ [][\A p \in Producers :
             /\ (ppc[p] = "idle" /\ ppc'[p] = "drop") =>
                   /\ Len(_observation_queue) = QueueMaxSize
                   /\ _observation_queue' = _observation_queue
             /\ (ppc[p] = "drop" /\ ppc'[p] = "reput") =>
                   /\ _observation_queue # <<>> =>
                         _observation_queue' = Tail(_observation_queue)
                   /\ Len(_observation_queue') < QueueMaxSize
             /\ (ppc[p] = "reput" /\ ppc'[p] = "idle") =>
                   \/ _observation_queue' = Append(_observation_queue, pobs[p])
                   \/ /\ Len(_observation_queue) = QueueMaxSize
                      /\ _observation_queue' = _observation_queue]_vars

\* before start(), two more observe() calls on the 99 queued observations:
\* the second found the queue full, dropped the first filler and was
\* appended as the newest
C11_Witness ==
    /\ pc = "none" /\ nobs = QueueMaxSize + 1
    /\ \A p \in Producers : ppc[p] = "idle"
    /\ Len(_observation_queue) = QueueMaxSize
    /\ \A i \in 1 .. (QueueMaxSize - 2) : _observation_queue[i] = FillerQueue[i + 1]
    /\ _observation_queue[QueueMaxSize].sensor_type = "vision"

----------------------------------------------------------------------------
(* Claims about shutdown *)

----------------------------------------------------------------------------
(* Claims about the locks *)

Holds(t, l) == Holder(l) = t

InCallback(t) == LockOp(t).op = "return"

\* C13: no thread waits for (is about to acquire) _mood_lock while it holds
\* _lock, so a thread that takes both takes _mood_lock first; no thread
\* holds either lock while one of its callbacks runs; and the threads never
\* deadlock: in every reachable state some thread can take a step, and a
\* thread that waits for a lock waits for a thread that is not waiting.
C13_LockOrder ==
    /\ [](\A t \in Threads :
             Holds(t, "_lock") =>
                 ~(LockOp(t).op = "acquire" /\ LockOp(t).lock = "_mood_lock"))
    /\ [](\A t \in Threads :
             InCallback(t) => ~Holds(t, "_lock") /\ ~Holds(t, "_mood_lock"))
    /\ [](ENABLED NextLocks)
    /\ [](\A t \in Threads :
             (LockOp(t).op = "acquire" /\ Holder(LockOp(t).lock) # "free") =>
                 ENABLED LockRelease(Holder(LockOp(t).lock)))

\* the voice thread holds _lock after it held _mood_lock, the status thread
\* holds _mood_lock, and the loop thread is inside the reasoner callback
C13_Witness ==
    /\ Holds("voice", "_lock")
    /\ lpc["voice"] = 4
    /\ Holds("status", "_mood_lock")
    /\ InCallback("loop")
    /\ LockOp("loop").lock = "llm_callback"

----------------------------------------------------------------------------
(* Claims about consolidation *)

ScenarioReply ==
    JsonReply(<<10, 999>>, <<Update(11, "merged", NoKey)>>,
              Merged("joined", 2000, <<12, 77>>))

ScenarioResult == ApplyReply(ConsolidateStore, ScenarioReply, "Joe", <<10, 11, 12>>)

\* C14: the step that applies a reply of the reasoner for one subject leaves
\* every memory outside the batch in the store and unchanged, whatever ids
\* the reply names; the only record it can add is the merged one, of the
\* batch's subject; the step always returns to the loop over the subjects.
\* In the example: 10 and 12 are deleted, 11 has the new content, a merged
\* record is inserted, 13, 77 and 999 are as before.
C14_OnlyBatchTouched ==
    /\ [][(mpc = "reasoner" /\ mpc' # "reasoner") =>
              /\ mpc' = "subjects"
              /\ \A i \in DOMAIN memories \ batch.valid_ids :
                     i \in DOMAIN memories' /\ memories'[i] = memories[i]
              /\ \A i \in DOMAIN memories' \ DOMAIN memories :
                     /\ memories'[i].subject = batch.subject
                     /\ memories'[i].content = "joined"]_vars
    /\ [](mpc = "reasoner" => ENABLED ReasonerReturns(ConsolidateReplies))
    /\ [](/\ DOMAIN ScenarioResult = {11, 13, 77, 999, 1000}
          /\ ScenarioResult[11].content = "merged"
          /\ ScenarioResult[1000].content = "joined"
          /\ \A i \in {13, 77, 999} : ScenarioResult[i] = ConsolidateStore[i])

\* the example reply has been applied to the batch {10, 11, 12}
C14_Witness ==
    /\ mpc = "subjects"
    /\ batch.valid_ids = {10, 11, 12}
    /\ DOMAIN memories = {11, 13, 77, 999, 1000}
    /\ memories[11].content = "merged"
    /\ memories[1000].content = "joined"
    /\ memories[999] = ConsolidateStore[999]

----------------------------------------------------------------------------
(* Claims about the maintainer and interactions *)

\* the maintainer is about to run a phase that works on the store
AtPhase == mpc \in {"decay", "reasoner", "prune", "dedup"}

\* C15: while the brain is INTERACTING the maintainer executes no
\* maintenance phase (decay, consolidation, pruning, face deduplication).
C15_NoPhaseWhileInteracting ==
    [][IsBusy => ~(AtPhase /\ mpc' # mpc)]_vars

\* C16: once is_busy() has returned true at a check of a cycle, no reasoner
\* call is issued until the next cycle begins: a busy check at the top of
\* the loop is followed by a wait of the busy-retry interval, which is
\* shorter than the maintenance interval; a busy check before the
\* consolidation phase skips the phase; and the reasoner is only called
\* from a subject's check that found the brain not busy.
C16_BusyMeansNoReasonerCall ==
    /\ [][(busy_seen \/ busy_seen') => reasoner_calls' = reasoner_calls]_vars
    /\ [][(mpc = "loop" /\ m_running /\ IsBusy /\ mpc' # mpc) =>
              /\ busy_seen'
              /\ mpc' = "wait"
              /\ mtimeout' = BusyRetrySeconds]_vars
    /\ [][(mpc = "consolidate" /\ IsBusy /\ mpc' # mpc) =>
              busy_seen' /\ mpc' = "prune"]_vars
    /\ [][(mpc # "reasoner" /\ mpc' = "reasoner") =>
              ~IsBusy /\ ~busy_seen]_vars
    /\ [](BusyRetrySeconds < IntervalSeconds)

\* the check before the second subject found the brain busy after the
\* reasoner was called for the first subject
C16_Witness ==
    /\ busy_seen
    /\ reasoner_calls = 1
    /\ mpc = "prune"
    /\ Len(groups) = 1

----------------------------------------------------------------------------
(* Claims about importance *)

\* C17: after any sequence of writes (remember, update_memory_importance,
\* bulk_update_importance, the maintainer's decay and consolidation) every
\* stored memory has 0 <= importance <= 1.
C17_ImportanceInRange ==
    \A i \in DOMAIN memories :
        0 <= memories[i].importance /\ memories[i].importance <= ImpOne

----------------------------------------------------------------------------
(* Claims about the mood *)

MoodFields ==
    {"happiness", "excitement", "tiredness", "boredom", "curiosity_level"}

\* C18: every field of the mood is within [0, 1] in every reachable state.
C18_MoodInRange ==
    \A f \in MoodFields : 0 <= mood[f] /\ mood[f] <= One

\* a touch and a novel face were handled, an interaction started and the
\* mood decayed, with happiness and tiredness at the upper bound, and a
\* think cycle has reset the boredom to the lower bound
C18_Witness ==
    /\ mood.happiness = One
    /\ mood.tiredness = One
    /\ mood.boredom = 0
    /\ latched._touch_detected
    /\ ninteractions >= 1
    /\ ticks = MoodTicks
    /\ pc = "sleep"

----------------------------------------------------------------------------
(* Claims about pruning and decay *)

Eligible == {i \in DOMAIN memories : memories[i].importance <= MinImportance}

Pruned == DOMAIN memories \ DOMAIN memories'

PruneStep == mpc = "prune" /\ mpc' = "dedup"

\* the rows are taken in the order importance, access_count, oldest
\* last_accessed: no row that is left comes before a row that is taken
PrunedInOrder ==
    /\ Pruned \subseteq Eligible
    /\ \A d \in Pruned : \A k \in Eligible \ Pruned :
           ~PruneBefore(memories[k], memories[d])
    /\ \A i \in DOMAIN memories' : memories'[i] = memories[i]
    /\ stats'.pruned_count = Cardinality(Pruned)

DecayStep == mpc = "decay" /\ mpc' = "consolidate"

Changed == {i \in DOMAIN memories : memories'[i].importance # memories[i].importance}

\* C20: in the decay phase an importance changes only if the last access
\* is more than 7 days old, the importance is <= 0.9 and the change is at
\* least 0.001, with new = max(0, old - 0.01 * (days since last access -
\* 7)); and decayed_count is the number of memories whose importance
\* changed.
C20_DecayRule ==
    [][DecayStep =>
          /\ DOMAIN memories' = DOMAIN memories
          /\ \A i \in Changed :
                 /\ memories[i].age > 24 * AccessProtectionDays
                 /\ memories[i].importance <= StaleMaxImportance
                 /\ memories[i].importance - memories'[i].importance >= DecayTolerance
                 /\ memories'[i].importance =
                        Max(0, memories[i].importance
                               - DecayRatePerDay *
                                 ((memories[i].age \div 24) - AccessProtectionDays))
          /\ stats'.decayed_count = Cardinality(Changed)]_vars

----------------------------------------------------------------------------
(* Claims about face deduplication *)

\* the maintenance thread is about to write a merge
Merging == mpc = "merge_write"

\* C21: face deduplication never merges entries of different names; for
\* every name the sum of times_seen over its faces stays the number of
\* sightings recorded for the name, so that a merge neither adds nor loses
\* one; the entry a merge keeps had the maximum times_seen of its group
\* when the group was read, and all other entries of the group are deleted.
C21_DedupConserves ==
    /\ [](\A name \in FaceNames : NameSum(faces, name) = seen[name])
    /\ [](Merging =>
            \A f \in SeqRange(Head(duplicates)) :
                /\ f.name = Keep(Head(duplicates)).name
                /\ f.times_seen <= Keep(Head(duplicates)).times_seen)
    /\ [][(Merging /\ mpc' # mpc) =>
            /\ DOMAIN faces' = DOMAIN faces \ DeleteIds(Head(duplicates))
            /\ DeleteIds(Head(duplicates)) =
                   {f.id : f \in SeqRange(Head(duplicates))}
                       \ {Keep(Head(duplicates)).id}]_vars

\* the same, for the merges during which no sighting is recorded
C21_SequentialDedupConserves ==
    [][(Merging /\ mpc' # mpc) =>
          (SelectSum(faces, DeleteIds(Head(duplicates))) = additional_seen =>
              \A name \in FaceNames : NameSum(faces', name) = NameSum(faces, name))]_vars

----------------------------------------------------------------------------
(* Claims about the events the loop handles *)

PersonEvents == {"person_entered_view", "face_recognized", "unknown_face_detected"}

\* the loop thread leaves _handle_observation
HandlerReturns == pc \in {"handle_event", "face_curious"} /\ pc' = "process"

\* C22: when the loop has handled a vision observation whose event is
\* person_entered_view, face_recognized or unknown_face_detected and the
\* state was IDLE, the state is CURIOUS.
C22_PersonEventMakesCurious ==
    [][(/\ HandlerReturns
        /\ obs.sensor_type = "vision" /\ obs.is_dict
        /\ obs.event \in PersonEvents
        /\ state = "IDLE") => state' = "CURIOUS"]_vars

\* the same for person_entered_view and for face_recognized with a name
C22_KnownPersonMakesCurious ==
    [][(/\ HandlerReturns
        /\ obs.sensor_type = "vision" /\ obs.is_dict
        /\ \/ obs.event = "person_entered_view"
           \/ obs.event = "face_recognized" /\ obs.name # ""
        /\ state = "IDLE") => state' = "CURIOUS"]_vars

----------------------------------------------------------------------------
(* Claims about the behaviour engine *)

Greetings ==
    {"greeting_known_person", "greeting_returning_person", "greeting_unknown_person"}

\* decide() is called and returns
Decides == ndecides' # ndecides

\* the context decide() is called with, as far as the priority branches
\* read it
Context == BuildObservationContext(latched, now, "None")

\* the tree greeted the detected person less than 60 s ago
GreetedRecently ==
    /\ Context.person_detected
    /\ CooldownName(Context) \in DOMAIN engine._greeting_cooldown
    /\ now < engine._greeting_cooldown[CooldownName(Context)] + CooldownSeconds

NoGreeting ==
    /\ chosen'.category \notin Greetings
    /\ \A k \in DOMAIN chosen'.tools : chosen'.tools[k].name # "remember"
    /\ engine'._greeting_cooldown = engine._greeting_cooldown

\* C23 as stated: a decide() call for a person who was greeted less than
\* 60 s ago yields the idle fallback, with no greeting category, no
\* remember tool and no refreshed cooldown.
C23_CooldownYieldsIdle ==
    [][(Decides /\ GreetedRecently) =>
          (NoGreeting /\ chosen'.branch = "idle")]_vars

\* C23: a decide() call for a person who was greeted less than 60 s ago
\* yields no greeting category, no remember tool and no refreshed cooldown;
\* it yields the idle fallback when the excitement is at most 0.6 and a
\* happy_general acknowledgment otherwise.
C23_CooldownYieldsNoGreeting ==
    [][(Decides /\ GreetedRecently) =>
          /\ NoGreeting
          /\ IF mood.excitement > 6000
             THEN chosen'.branch = "acknowledge" /\ chosen'.category = "happy_general"
             ELSE chosen'.branch = "idle"]_vars

\* Joe was greeted less than 60 s ago, is still detected, and the last
\* decide() acknowledged him without a greeting
C23_Witness ==
    /\ chosen.branch = "acknowledge"
    /\ latched._person_detected /\ latched._recent_person = "Joe"
    /\ "Joe" \in DOMAIN engine._greeting_cooldown
    /\ now = engine._greeting_cooldown["Joe"] + 30

\* C24: decide() takes the first applicable branch in the order person,
\* obstacle closer than 15 cm, touch, active goal, mood, idle: without a
\* person an obstacle at 8 cm gives the obstacle reaction, and a detected
\* person whose greeting is not on cooldown is greeted whatever the
\* obstacle distance.
C24_FirstBranchWins ==
    [][Decides =>
          LET ctx == Context
              near == ctx.obstacle_detected
                          /\ ctx.obstacle_distance < ObstacleReactDistance
          IN  /\ (ctx.person_detected /\ ~GreetedRecently) =>
                    chosen'.branch = "person" /\ chosen'.category \in Greetings
              /\ (ctx.person_detected /\ GreetedRecently) =>
                    chosen'.branch \in {"idle", "acknowledge"}
              /\ (~ctx.person_detected /\ ctx.obstacle_distance = 8) =>
                    chosen'.category = "reaction_too_close"
              /\ (~ctx.person_detected /\ near) => chosen'.branch = "obstacle"
              /\ (~ctx.person_detected /\ ~near /\ ctx.touch_detected) =>
                    chosen'.branch = "touch"
              /\ (~ctx.person_detected /\ ~near /\ ~ctx.touch_detected) =>
                    chosen'.branch \in {"goal", "mood", "idle"}
              /\ chosen'.branch = "goal" => chosen'.category # "idle_sounds"
              /\ chosen'.branch = "idle" =>
                    \/ ctx.person_detected
                    \/ HandleMood(engine, mood, DefaultPersonality) = {}]_vars

\* Joe stands before the dog with an obstacle at 8 cm and has just been
\* greeted
C24_Witness ==
    /\ chosen.branch = "person" /\ chosen.category = "greeting_known_person"
    /\ latched._person_detected /\ latched._recent_person = "Joe"
    /\ latched._obstacle_distance = 8
    /\ "Joe" \in DOMAIN engine._greeting_cooldown
    /\ engine._greeting_cooldown["Joe"] = now


\* recall's update and return
Recalling == recalled.pc = "selected" /\ recalled'.pc = "done"

Touched(row) == [row EXCEPT !.age = 0, !.access_count = @ + 1]

\* C25: recall(query, limit) increases access_count by exactly 1 and
\* refreshes last_accessed for exactly the memories it returns, in one
\* batched update, and changes no field of a memory it does not return.
C25_RecallTouchesReturned ==
    [][Recalling =>
          /\ DOMAIN memories' = DOMAIN memories
          /\ \A i \in recalled.ids :
                /\ i \in DOMAIN memories
                /\ memories'[i] = Touched(memories[i])
          /\ \A i \in DOMAIN memories \ recalled.ids :
                memories'[i] = memories[i]]_vars

\* C25, for the rows the update finds: each returned memory that is still
\* stored when the update runs is touched once, and no other row changes.
C25_RecallTouchesStored ==
    [][Recalling =>
          /\ DOMAIN memories' = DOMAIN memories
          /\ \A i \in DOMAIN memories :
                memories'[i] = IF i \in recalled.ids
                               THEN Touched(memories[i]) ELSE memories[i]]_vars

C25_Witness ==
    /\ recalled.pc = "done"
    /\ recalled.ids # {}
    /\ \E i \in recalled.ids : i \in DOMAIN memories /\ memories[i].age = 0
    /\ \E i \in DOMAIN memories : i \notin recalled.ids

\* a learn_trick call returns
Learning == result'.calls # result.calls /\ result'.message # "None"

\* C26: learn_trick with more than 10 actions, or with an action outside
\* the closed action vocabulary, returns a rejection with a reason and
\* leaves the stored tricks unchanged; every stored trick has at most 10
\* actions, each of them in the vocabulary.
C26_StoredTricksInVocabulary ==
    \A n \in DOMAIN tricks :
        /\ Len(tricks[n].actions) <= MaxActionsPerTrick
        /\ \A i \in DOMAIN tricks[n].actions :
              tricks[n].actions[i] \in DogValidActions

\* C26, with the list learn_trick tests against: a stored trick has at most
\* 10 actions, each in MemoryManager.VALID_ACTIONS, and a rejection comes
\* with a reason and leaves the table as it was.
C26_StoredTricksInValidActions ==
    /\ \A n \in DOMAIN tricks :
          /\ Len(tricks[n].actions) <= MaxActionsPerTrick
          /\ \A i \in DOMAIN tricks[n].actions :
                tricks[n].actions[i] \in ValidActions
    /\ ~result.success =>
          result.message \in {"Too many actions", "Invalid actions"}

\* C26, the rejection: a learn_trick that returns False leaves the table.
C26_RejectionLeavesTricks ==
    [][Learning /\ ~result'.success => tricks' = tricks]_vars

\* an execute_tool call ends
Executing == result'.calls # result.calls /\ result'.call # NoCall

\* the tool and the parameters of the call that ended
CalledTool == Lower(result'.call.name)
CalledParams == result'.call.params

\* the call breaks a validation constraint
BadCategory ==
    /\ CalledTool = "remember"
    /\ Param(CalledParams, "category", "fact") \notin ValidCategories
BadTrait ==
    /\ CalledTool = "update_personality"
    /\ Param(CalledParams, "trait", "energy") \notin ValidTraits
BadAction ==
    /\ CalledTool = "learn_trick"
    /\ InvalidActions(Param(CalledParams, "actions", <<>>)) # {}

Refused ==
    /\ ~result'.success
    /\ memories' = memories
    /\ tricks' = tricks
    /\ _personality' = _personality

\* C27: a tool call that violates a validation constraint (a remember with
\* a category outside the allowed set, an update_personality naming an
\* unknown trait, a learn_trick with an action outside the vocabulary) is
\* reported as a failed ToolResult and leaves the memory store and the
\* personality unchanged.
C27_ViolationRefused ==
    [][Executing /\ (BadCategory \/ BadTrait \/ BadAction) => Refused]_vars

\* C27, for the constraints the handlers test: an unknown trait and an
\* action outside MemoryManager.VALID_ACTIONS are refused without a change.
C27_TraitAndActionRefused ==
    [][Executing /\ (BadTrait \/ BadAction) => Refused]_vars

\* C28: execute_tool never raises: an unknown tool name, an exception in a
\* handler and a vision or navigation tool without its callback each give
\* ToolResult(success=false), the last with "Vision not available".
C28_NeverRaises ==
    [][Executing =>
          /\ ~result'.raised
          /\ CalledTool \notin ToolNames => ~result'.success
          /\ (/\ CalledTool \in VisionTools \cup NavigationTools
              /\ CalledTool \notin vision_callbacks)
                => /\ ~result'.success
                   /\ result'.message \in
                         {"Vision not available", "Missing name",
                          "Missing room name", "Unknown room"}]_vars

\* C28, for names that are strings: no raise, failure for an unknown name,
\* for an exception in a handler and for a missing callback, which gives
\* "Vision not available" for the vision tools and "Navigation not
\* available" for go_to_room and explore.
C28_StringNamesNeverRaise ==
    [][Executing /\ result'.call.name \notin NotStrings =>
          /\ ~result'.raised
          /\ CalledTool \notin ToolNames => ~result'.success
          /\ (/\ CalledTool \in VisionTools \cup NavigationTools
              /\ CalledTool \notin vision_callbacks)
                => /\ ~result'.success
                   /\ result'.message \in
                         {IF CalledTool \in VisionTools
                          THEN "Vision not available"
                          ELSE "Navigation not available", "Missing name",
                          "Missing room name", "Unknown room"}]_vars

\* a close() call returns
CloseReturns == nstore'.closes = nstore.closes + 1

\* the close() that returns was called on a store closed already
CloseAgain == \E th \in StoreThreads : opc[th].pc = "idle" /\ opc'[th] # opc[th]

\* an operation enters _get_conn
OperationStarts == nstore'.operations = nstore.operations + 1

C30_TimeUntilNextIsMaxWait ==
    /\ TimeUntilNext(rate_limiter, now) =
          Max(Max(0, IntervalWait(rate_limiter, now)),
              WindowWait(rate_limiter, now))
    /\ ~CanCall(rate_limiter, now) => TimeUntilNext(rate_limiter, now) > 0
    /\ CanCall(rate_limiter, now + TimeUntilNext(rate_limiter, now))

\* C30, the part that holds: the value is never negative, it is greater
\* than 0 whenever can_call() is false, and it is never more than the
\* maximum of the two waits, after which can_call() is true.
C30_PositiveWhileRefused ==
    /\ TimeUntilNext(rate_limiter, now) >= 0
    /\ ~CanCall(rate_limiter, now) => TimeUntilNext(rate_limiter, now) > 0
    /\ TimeUntilNext(rate_limiter, now) <=
          Max(Max(0, IntervalWait(rate_limiter, now)),
              WindowWait(rate_limiter, now))
    /\ CanCall(rate_limiter,
               now + Max(Max(0, IntervalWait(rate_limiter, now)),
                         WindowWait(rate_limiter, now)))

----------------------------------------------------------------------------
(* The voice assistant's rounds with a ConversationManager.  A round starts *)
(* with the wake word or with a trigger that returns triggered = True; at  *)
(* its end the assistant calls on_finish_a_round.                          *)

\* AutonomousDog.__init__: vad_silence_threshold = 2.0
VadSilence == 2

MaxTriggers == 3
ConversationHorizon == 40

\* what the speech recogniser returns: an utterance, nothing ("" after the
\* silence), or None
Heard == {"", "None", "What is that", "Bye", "Tell me later"}

\* seconds a listen of trigger() may take
ListenTimes(cm, t) ==
    IF cm.mode = "timeout"
    THEN {0, Min(ConversationTimeout - (t - cm._start_time), ListenSeconds)}
    ELSE {0, VadSilence}

\* the wake word is heard: a round starts, whatever the conversation mode
WakeWord(utterances) ==
    /\ round.pc = "listen"
    /\ \E m \in utterances \ {"", "None"} :
          round' = [round EXCEPT !.pc = "round", !.by = "wake", !.message = m,
                                 !.said_goodbye = FALSE]
    /\ UNCHANGED <<brain_vars, _observation_queue, _running, spc, now,
                   loop_vars, voice_vars, producer_vars, status_vars,
                   history_vars, ticks, lock_vars, maintainer_vars,
                   component_vars, conversation_manager, outlived,
                   requests>>

\* ConversationManager.trigger, called by the assistant while it waits
Trigger(heard, stt_raises, max_triggers) ==
    /\ round.pc = "listen"
    /\ round.triggers < max_triggers
    /\ LET cm == AfterIsActive(conversation_manager, now)
           quiet == [round EXCEPT !.triggers = @ + 1, !.heard = "none"]
       IN  IF ~IsActive(conversation_manager, now)
           THEN /\ conversation_manager' = cm
                /\ round' = quiet
                /\ UNCHANGED now
           ELSE IF cm.mode = "timeout" /\ ConversationTimeout - (now - cm._start_time) <= 0
           THEN /\ conversation_manager' = Deactivate(cm)
                /\ round' = quiet
                /\ UNCHANGED now
           ELSE \E dt \in ListenTimes(cm, now) :
                   /\ now + dt <= Epoch + ConversationHorizon
                   /\ now' = now + dt
                   /\ \/ /\ stt_raises
                         /\ conversation_manager' = Deactivate(cm)
                         /\ round' = quiet
                      \/ \E returned \in heard :
                            LET message == IF returned = "None" THEN "" ELSE returned
                            IN  IF message # ""
                                THEN /\ conversation_manager' =
                                           IF ShouldEnd(message) THEN Deactivate(cm)
                                           ELSE [cm EXCEPT !._start_time = now']
                                     /\ round' =
                                           [pc |-> "round", by |-> "trigger",
                                            message |-> message, heard |-> message,
                                            said_goodbye |->
                                               round.said_goodbye \/ ShouldEnd(message),
                                            triggers |-> round.triggers + 1]
                                ELSE /\ conversation_manager' = cm
                                     /\ round' = [round EXCEPT !.triggers = @ + 1,
                                                               !.heard = ""]
    /\ UNCHANGED <<brain_vars, _observation_queue, _running, spc,
                   loop_vars, voice_vars, producer_vars, status_vars,
                   history_vars, ticks, lock_vars, maintainer_vars,
                   component_vars, outlived, requests>>

\* on_finish_a_round, at the end of every round
OnFinishARound ==
    /\ round.pc = "round"
    /\ conversation_manager' = Activate(conversation_manager, now)
    /\ round' = [round EXCEPT !.pc = "listen"]
    /\ UNCHANGED <<brain_vars, _observation_queue, _running, spc, now,
                   loop_vars, voice_vars, producer_vars, status_vars,
                   history_vars, ticks, lock_vars, maintainer_vars,
                   component_vars, outlived, requests>>

InitConversationSpec ==
    /\ InitBrainCore(FALSE, TRUE, 5, 30, DefaultMood, NoMemories, 0)
    /\ InitFaces(NoFaces)
    /\ InitEngine
    /\ InitStore
    /\ InitConversation(ValidModes)

NextConversation ==
    \/ Tick({5, 11}, Epoch + ConversationHorizon)
    \/ WakeWord(Heard)
    \/ \E stt_raises \in BOOLEAN : Trigger(Heard, stt_raises, MaxTriggers)
    \/ OnFinishARound

SpecConversation == InitConversationSpec /\ [][NextConversation]_vars

\* a call of trigger() returns
TriggerReturns == round'.triggers = round.triggers + 1

\* C32: in both conversation modes, once the user says a goodbye phrase in
\* a follow-up turn the conversation ends: conversation mode is inactive
\* after that turn, and no further turn is accepted without the wake word
\* until the wake word is heard again.
C32_GoodbyeEndsConversation ==
    [][/\ (round.pc = "round" /\ round.by = "trigger" /\ ShouldEnd(round.message)
              /\ round'.pc = "listen")
          => ~conversation_manager'._active
       /\ (round.said_goodbye /\ round.pc = "listen" /\ round'.pc = "round")
          => round'.by = "wake"]_vars

\* C32, the part that holds: the trigger() call that hears the goodbye
\* phrase leaves conversation mode inactive, and returns the phrase as a
\* turn.
C32_TriggerDeactivates ==
    [][TriggerReturns /\ ShouldEnd(round'.heard)
          => /\ ~conversation_manager'._active
             /\ round'.pc = "round" /\ round'.message = round'.heard]_vars

\* C33: both modes end when their threshold is reached: in timeout mode
\* the conversation is inactive once more than `timeout` seconds have
\* passed since activation or the last recognised speech, and in vad mode
\* it is inactive once a listen ends in silence.
C33_ThresholdEndsConversation ==
    [][TriggerReturns =>
          /\ (conversation_manager.mode = "timeout"
                 /\ now - conversation_manager._start_time > ConversationTimeout)
             => /\ ~conversation_manager'._active
                /\ round'.pc = "listen"
          /\ (conversation_manager.mode = "vad" /\ round'.heard = "")
             => ~conversation_manager'._active]_vars

\* C33, the part that holds: in timeout mode is_active() is false and
\* trigger() accepts no turn once more than `timeout` seconds have passed
\* since activation or the last recognised speech.
C33_TimeoutEndsConversation ==
    /\ (conversation_manager.mode = "timeout"
           /\ now - conversation_manager._start_time > ConversationTimeout)
       => ~IsActive(conversation_manager, now)
    /\ [][(TriggerReturns /\ conversation_manager.mode = "timeout"
              /\ now - conversation_manager._start_time > ConversationTimeout)
          => /\ ~conversation_manager'._active
             /\ round'.pc = "listen"]_vars

----------------------------------------------------------------------------
(* A visit: a known person is recognised, leaves the view and comes back,  *)
(* while the local brain thinks with its behaviour tree.                   *)

ReturnObs == 4
ReturnTicks == 2
ReturnStep == 150
ReturnHorizon == 300

\* _do_think_local: the contexts are built from the latched fields and
\* behavior_engine.decide() returns the Decision that is then executed
LocalDecideTree ==
    /\ pc = "local_decide"
    /\ \E r \in EvaluateTree(engine, mood, _personality,
                             BuildObservationContext(latched, now, "None"), now) :
          /\ engine' = r.engine
          /\ chosen' = r.chosen
          /\ decision' = [speech |-> <<r.chosen.category>>,
                          actions |-> <<"wag tail">>,
                          tools |-> [k \in DOMAIN r.chosen.tools |->
                                        r.chosen.tools[k].name]]
    /\ pc' = "tools"
    /\ UNCHANGED <<brain_vars, _observation_queue, _running, spc, now, obs,
                   should_think, response, voice_vars, producer_vars,
                   status_vars, history_vars, ticks, lock_vars,
                   maintainer_vars, face_vars, store_vars, other_vars,
                   ndecides>>

\* the vision thread reports a recognised face first, then faces and
\* departures in any order
VisitInputs ==
    IF nobs = 0 THEN {VisionObs("face_recognized", "Joe", 0)}
    ELSE {VisionObs("face_recognized", "Joe", 0),
          VisionObs("person_left_view", "", 0)}

InitReturning == InitBrain(TRUE, FALSE, 5, 30)

NextReturning ==
    \/ Start
    \/ Tick({ReturnStep}, Epoch + ReturnHorizon)
    \/ \E p \in Producers : ObservePut(p, VisitInputs, ReturnObs)
    \/ LoopStep(ReturnTicks)
    \/ DoThink
    \/ LocalRecord
    \/ LocalDecideTree
    \/ ExecTools
    \/ ExecActions
    \/ Speak
    \/ MoodReset
    \/ ThinkFinally

SpecReturning == InitReturning /\ [][NextReturning]_vars

\* the person of the latched fields was recognised, left the view, and was
\* recognised again less than 300 s after leaving
CameBack(l) ==
    /\ l._person_detected
    /\ l._recent_person # "None"
    /\ l._person_left_time > 0
    /\ l._last_person_time >= l._person_left_time
    /\ l._last_person_time - l._person_left_time < ReturningSeconds

\* C35: with the local backend, when a known person has been recognised,
\* then a person_left_view event is processed, and the person is recognised
\* again less than 300 s after leaving, the next greeting produced for the
\* person uses the category greeting_returning_person.
C35_ReturningGreeting ==
    [][(pc = "local_decide" /\ pc' = "tools" /\ CameBack(latched)
           /\ chosen'.branch = "person")
          => chosen'.category = "greeting_returning_person"]_vars

\* C35, the part that holds: such a greeting is the returning one exactly
\* when the last recognition was scored at most 0.5 by the novelty detector
\* and the decision is taken less than 300 s after the person left.
C35_ReturningUnlessNovel ==
    [][(pc = "local_decide" /\ pc' = "tools" /\ CameBack(latched)
           /\ chosen'.branch = "person")
          => (chosen'.category = "greeting_returning_person"
                <=> /\ ~latched._person_is_new
                    /\ now - latched._person_left_time < ReturningSeconds)]_vars

----------------------------------------------------------------------------
(* start() after a stop() whose join timed out.  The thread of the stopped *)
(* run is still inside its tick; it runs the same _run_loop and tests the  *)
(* same self._running.  Its steps are followed as far as the loop test:    *)
(* what its ticks do to the mood and the queue is not.                     *)

RestartTicks == 2
OutlivedTicks == 1

\* the positions of _run_loop at which a thread is alive
Alive(thread_pc) == thread_pc \notin {"none", "exited"}

\* start(): self._running is False and self._thread is None, so a new
\* thread is made, whatever became of the last one
StartAgain ==
    /\ ~_running
    /\ spc = "idle"
    /\ Alive(pc)
    /\ ~Alive(outlived.pc)
    /\ _running' = TRUE
    /\ mood' = IF local_only
               THEN [mood EXCEPT !.boredom = 7000, !.curiosity_level = 5000]
               ELSE mood
    /\ outlived' = [pc |-> "tick", ticks |-> 0]
    /\ pc' = "loop"
    /\ obs' = NoObs
    /\ should_think' = FALSE
    /\ response' = <<>>
    /\ decision' = NoDecision
    /\ UNCHANGED <<state, rate_limiter, local_only, llm_callback, latched,
                   _observation_queue, spc, now, voice_vars, producer_vars,
                   status_vars, history_vars, ticks, lock_vars,
                   maintainer_vars, component_vars, conversation_manager,
                   round, requests>>

\* the older thread: the tick it is in ends; while self._running: the next
\* tick begins, or the thread ends
OutlivedLoop(max_ticks) ==
    /\ \/ /\ outlived.pc = "tick"
          /\ outlived' = [outlived EXCEPT !.pc = "loop"]
       \/ /\ outlived.pc = "loop"
          /\ IF _running
             THEN /\ outlived.ticks < max_ticks
                  /\ outlived' = [pc |-> "tick", ticks |-> outlived.ticks + 1]
             ELSE outlived' = [outlived EXCEPT !.pc = "exited"]
    /\ UNCHANGED <<brain_vars, _observation_queue, _running, spc, now,
                   loop_vars, voice_vars, producer_vars, status_vars,
                   history_vars, ticks, lock_vars, maintainer_vars,
                   component_vars, conversation_manager, round, requests>>

NextRestart ==
    \/ Start
    \/ StartAgain
    \/ Stop
    \/ StopJoin
    \/ OutlivedLoop(OutlivedTicks)
    \/ \E p \in Producers : ObservePut(p, BrainInputs, MaxObs)
    \/ LoopStep(RestartTicks)
    \/ ThinkStep(BrainReplies, BrainDecisions)

SpecRestart == InitDecision /\ [][NextRestart]_vars

\* a thread is executing a tick
InTick(thread_pc) == Alive(thread_pc) /\ thread_pc # "loop"

\* C36: after any sequence of start() and stop(timeout) calls at most one
\* loop thread is executing ticks at any time; a loop thread that outlived
\* a timed-out stop() begins no further tick after a later start().
C36_OneLoopThread ==
    [][/\ outlived'.ticks <= outlived.ticks
       /\ ~(InTick(pc') /\ outlived'.pc = "tick" /\ outlived'.ticks > 0)]_vars

\* C36, the part that holds: start() on a running brain makes no thread,
\* and a thread that reads self._running = False at the loop test ends.
C36_StoppedThreadEnds ==
    [][/\ (_running /\ pc' # pc /\ pc' = "loop") => pc \in {"sleep", "error_sleep"}
       /\ (~_running /\ pc = "loop" /\ pc' # pc) => pc' = "exited"
       /\ (~_running /\ outlived.pc = "loop" /\ outlived' # outlived)
             => outlived'.pc = "exited"]_vars

----------------------------------------------------------------------------
(* robust_llm.py: RobustLLM._make_request, called on the brain's RobustLLM *)
(* and on the maintainer's, each on its own thread.  requests.post is one  *)
(* attribute of one module for the whole process.                          *)

MaxRequests == 2

\* original_post = requests.post
RequestSave(th, max_requests) ==
    /\ requests.pc[th] = "idle"
    /\ requests.calls[th] < max_requests
    /\ requests' = [requests EXCEPT !.original_post[th] = requests.post,
                                    !.pc[th] = "saved",
                                    !.calls[th] = @ + 1]
    /\ UNCHANGED <<program_vars_but_requests, lock_vars, maintainer_vars,
                   component_vars>>

\* requests.post = timeout_post
RequestPatch(th) ==
    /\ requests.pc[th] = "saved"
    /\ requests' = [requests EXCEPT !.post = <<th>> \o requests.original_post[th],
                                    !.pc[th] = "chat"]
    /\ UNCHANGED <<program_vars_but_requests, lock_vars, maintainer_vars,
                   component_vars>>

\* base_llm.chat returns or raises; finally: requests.post = original_post
RequestRestore(th) ==
    /\ requests.pc[th] = "chat"
    /\ requests' = [requests EXCEPT !.post = requests.original_post[th],
                                    !.pc[th] = "idle"]
    /\ UNCHANGED <<program_vars_but_requests, lock_vars, maintainer_vars,
                   component_vars>>

InitRequests == InitBrain(FALSE, TRUE, 5, 30)

NextRequests ==
    \E th \in RequestThreads :
       \/ RequestSave(th, MaxRequests)
       \/ RequestPatch(th)
       \/ RequestRestore(th)

SpecRequests == InitRequests /\ [][NextRequests]_vars

NoRequestInProgress == \A th \in RequestThreads : requests.pc[th] = "idle"

\* C37: whenever no RobustLLM request is in progress on any thread,
\* requests.post is the original function, also when the brain's RobustLLM
\* and the maintainer's issue requests concurrently.
C37_PostRestored == NoRequestInProgress => requests.post = <<>>

\* C37, the part that holds: as long as only one of the threads has made
\* requests, requests.post is the original function whenever no request is
\* in progress.
C37_RestoredForOneThread ==
    (NoRequestInProgress /\ \E th \in RequestThreads : requests.calls[th] = 0)
       => requests.post = <<>>

----------------------------------------------------------------------------
(* NoveltyDetector.add_observation inside observe() *)

\* the observations a call of observe() has just scored: the one it put on
\* the queue, or the one it holds while the queue is full
Observed ==
    IF _observation_queue' # _observation_queue
    THEN {_observation_queue'[Len(_observation_queue')]}
    ELSE {pobs'[p] : p \in {q \in Producers : ppc[q] = "idle" /\ ppc'[q] = "drop"}}

\* C31: after every call of add_observation, the first call for a sensor
\* type included, the history of that sensor ends with the observed sample
\* and holds at most 100 samples.
C31_HistoryEndsWithSample ==
    [][nobs' = nobs + 1 =>
          \A o \in Observed :
             LET h == _history'[o.sensor_type]
             IN  /\ h # <<>>
                 /\ h[Len(h)] = HistoryValue(o)
                 /\ Len(h) <= HistorySize]_vars

\* C31, the part that holds: a call for a sensor type that has a history
\* scores the sample against the history as it was, appends the sample and
\* evicts the oldest sample beyond 100.
C31_LaterCallsAppend ==
    [][nobs' = nobs + 1 =>
          \A o \in Observed :
             o.sensor_type \in DOMAIN _history =>
                LET h == _history'[o.sensor_type]
                    before == _history[o.sensor_type]
                IN  /\ o.novelty = Novelty(o, _history)
                    /\ h # <<>>
                    /\ h[Len(h)] = HistoryValue(o)
                    /\ Len(h) <= HistorySize
                    /\ Len(before) < HistorySize => h = Append(before, HistoryValue(o))
                    /\ Len(before) = HistorySize =>
                          h = Append(Tail(before), HistoryValue(o))]_vars

----------------------------------------------------------------------------
(* One consolidation reply applied to its batch *)

\* the replies the step from memories to memories' can have applied
AppliedReplies ==
    {reply \in ConsolidateReplies :
        /\ reply.kind = "json"
        /\ stats'.consolidated_count =
              stats.consolidated_count + Affected(reply, batch.valid_ids)
        /\ \E batch_memories \in MemoriesRead(reply) :
              memories' = ApplyReply(memories, reply, batch.subject, batch_memories)}

\* the ids of delete_ids that are deleted: those of the batch
DeletedBy(reply) == SeqRange(reply.delete_ids) \cap batch.valid_ids

\* the source ids that are left: of the batch and not deleted
LiveSources(reply) ==
    (SeqRange(reply.merged.source_ids) \cap batch.valid_ids) \ DeletedBy(reply)

\* the number of entries of seq whose id is in ids
Naming(seq, ids) == Cardinality({k \in DOMAIN seq : seq[k] \in ids})

\* the id an INSERT gets after the deletions of delete_ids, its sources
\* still being in the table
MergedId(reply) == NewId(BulkDeleteMemories(memories, DeletedBy(reply)))

----------------------------------------------------------------------------
(* The idle brain: no observation, no interaction, the clock moved by    *)
(* the loop's own time.sleep(0.1)                                         *)

\* seconds of the scenario
BoredHorizon == 340

\* ticks of the loop in one second: time.sleep(0.1)
TicksPerSecond == 10

\* seconds of decay that take boredom from 0.0 to 1.0, above every threshold
\* of should_think (boredom_rate = 0.01 * dt * 0.5 = 5 units a tick)
ThinkWait == One \div (5 * TicksPerSecond)

\* time.sleep(0.1) seen on the clock: every tenth tick completes a second
SleepOnClock(max_time) ==
    /\ pc = "sleep"
    /\ now' = IF ticks % TicksPerSecond = 0 THEN now + 1 ELSE now
    /\ now' <= max_time
    /\ pc' = "loop"
    /\ UNCHANGED <<brain_vars, _observation_queue, _running, spc, rest_vars,
                   voice_vars, producer_vars, status_vars, obs, should_think,
                   response, decision, history_vars, ticks>>

\* a think cycle in which every call returns: the prompt is built, the
\* backend answers, the callbacks do not raise
ReturningThinkStep ==
    \/ DoThink
    \/ BuildPromptWith({FALSE})
    \/ RecordAndCall
    \/ LlmReturn(BrainReplies)
    \/ LocalRecord
    \/ LocalDecideWith(BrainDecisions, {FALSE})
    \/ ExecTools
    \/ ExecActionsWith({FALSE})
    \/ SpeakWith({FALSE})
    \/ MoodReset
    \/ ThinkFinally

\* the loop thread: iterations of _run_loop with an empty queue
BoredLoopThread ==
    \/ LoopTop(TicksPerSecond * (BoredHorizon + 1))
    \/ ProcessObservations
    \/ UpdateMood
    \/ MaybeThinkMood
    \/ MaybeThink
    \/ SleepOnClock(Epoch + BoredHorizon)
    \/ ReturningThinkStep

NextBored ==
    \/ Start
    \/ BoredLoopThread

\* the loop thread is scheduled again and again, and a call of the backend
\* returns
SpecBored == InitDecision /\ [][NextBored]_vars /\ WF_vars(BoredLoopThread)

\* C38: while the brain runs and is not INTERACTING, and while the scenario
\* has the seconds left that decay needs, every iteration of the loop is
\* followed by the start of a think cycle, although no observation ever
\* arrives
C38_ThinksAgain ==
    [](/\ pc = "sleep"
       /\ _running
       /\ state # "INTERACTING"
       /\ _observation_queue = <<>>
       /\ now + ThinkWait <= Epoch + BoredHorizon
       => <>(pc = "do_think"))

\* a second think cycle of the reasoner was started by decay alone: the
\* first one had reset boredom to 0.0 and nothing was ever observed
C38_Witness ==
    /\ pc = "do_think"
    /\ ~local_only
    /\ Len(invocations) = 1
    /\ nobs = 0
    /\ _running
    /\ mood.boredom > 6400

----------------------------------------------------------------------------
(* The 0.3 baseline of excitement and curiosity *)

\* C39: excitement and curiosity_level never fall below the 0.3 baseline,
\* whatever the brain does to its mood: decay, the start of an interaction,
\* a novel stimulus, start(), and the post-think update of either backend
C39_AboveBaseline ==
    /\ mood.excitement >= 3000
    /\ mood.curiosity_level >= 3000

\* the behaviour tree's post-think update has acted and stopped at the
\* baseline: start() had raised curiosity to 0.5, less than 0.2 above it
C39_Witness ==
    /\ local_only
    /\ pc = "think_finally"
    /\ Len(invocations) >= 1
    /\ mood.curiosity_level = 3000
    /\ mood.boredom < 7000

====
